---- MODULE Spec2Model ----
(***************************************************************************)
(* The invalidation / redraw scheduler of the charting library:            *)
(* System.update(), System.requestFrame(), System.validateLayouts() and    *)
(* System.validatePositions(), run against a small scene of components,    *)
(* containers and sprites.  update() is one synchronous handler; its       *)
(* position inside the handler is the variable pc, and while pc # "idle"   *)
(* no other handler of the event loop can run.                             *)
(***************************************************************************)
EXTENDS Integers, Sequences, FiniteSets, TLC

(***************************************************************************)
(* The scene: one chart (base sprite) with two series, a legend and one    *)
(* leaf sprite.  Component extends Container extends Sprite.               *)
(***************************************************************************)
NoNode == "none"

Nodes == {"chart", "series", "sbseries", "legend", "column"}

Components == {"chart", "series", "sbseries", "legend"}

Containers == Components

\* Component.dataProvider: series derives from chart, sbseries from series.
dataProvider ==
  [n \in Nodes |->
     CASE n = "series" -> "chart"
       [] n = "sbseries" -> "series"
       [] OTHER -> NoNode]

\* Container.children, in list order.
children ==
  [n \in Nodes |->
     CASE n = "chart" -> <<"series", "sbseries", "legend">>
       [] n = "series" -> <<"column">>
       [] OTHER -> <<>>]

\* sprite.dataItem.component (NoNode: the sprite has no data item).
dataItemComponent ==
  [n \in Nodes |-> IF n = "column" THEN "series" ELSE NoNode]

\* component.isTemplate
isTemplate == [n \in Nodes |-> FALSE]

\* The keys of registry.invalidSprites / invalidLayouts / invalidPositions,
\* in the order `for (key in ...)` enumerates them: the uid of each base sprite.
Keys == <<"chart">>

KeySet == {Keys[i] : i \in 1..Len(Keys)}

\* sprite.baseId: the base sprite whose buckets hold the node.
baseId == [n \in Nodes |-> "chart"]

\* ChordDiagram: this.startAngle, this.endAngle, this.nodePadding
startAngle == -90

endAngle == 270

nodePadding == 5

(***************************************************************************)
(* Bounds of the model.                                                    *)
(***************************************************************************)
\* TreeMap: children of the parent item, the largest value of a child,
\* and by how much the parent's own value may exceed the children's sum
MaxChildren == 3

MaxValue == 3

MaxOwnValue == 1

\* the corners (x0, y0) and the side lengths of the parent rectangle
Origins == {<<0, 0>>, <<1, 2>>}

Sides == {1, 2, 4}

\* ChordDiagram: links of the data, the node names and link values they
\* draw from, and the values of minNodeSize (0.02 is the default)
MaxLinks == 2

Names == {"A", "B"}

NoName == ""

LinkValues == {1, 100}

MinNodeSizes == {[n |-> 1, d |-> 50], [n |-> 1, d |-> 10]}

\* events handled between frames (invalidate, dispose, animate, ...)
MaxEnvOps == 1

\* SVGContainer objects constructed, and dispose() calls on each of them
MaxSVGContainers == 4

MaxDisposeCalls == 2

\* items of one export menu, and the nested calls the call stack holds
MaxMenu == 3

MaxStack == 8

\* disturbances of a plain run: exceptions thrown by validation calls,
\* validateData() calls that stop with dataValidationProgress < 1, and times
\* the clock is found past the step duration
MaxFaults == 1

\* animations running at the same time
MaxAnimations == 1

\* the branches of one export menu
Branches == {"dots", "image", "data", "png"}

NoBranch == "none"

\* close timers set on one menu, the moments its clock shows (ms) and how
\* far the clock moves in one step
MaxTimeouts == 5

MaxMenuClock == 1500

MenuClockStep == 500

\* DataSource: the values reloadFrequency is set to (ms), the loads in
\* flight at one time and the reload timers set
Frequencies == {0, 5000}

MaxLoads == 2

MaxReloads == 3

\* create(): the htmlElement arguments (an element of the page, or an id no
\* element has), the classType arguments (a registered class, or a name
\* that is not registered) and the charts created
HtmlElements == {"chartdiv", "missing"}

ClassTypes == {"PieChart", "unknown"}

MaxCreated == 5

\* the ids registry.getUniqueId() can give out: two for each chart
Uids == 1..(2 * MaxCreated)

(***************************************************************************)
(* Program constants.                                                      *)
(***************************************************************************)
\* _updateStepDuration at construction, ms
StartupStepDuration == 50

\* ExportMenu.closeDelay, ms
closeDelay == 1000

\* _updateStepDuration once a render pass completed with nothing skipped, ms
RelaxedStepDuration == 250

\* the render pass looks at the clock every CheckEvery-th element
CheckEvery == 5

\* dataValidationProgress is a fraction of 1; the model counts tenths
FullProgress == 10

\* Date.now() - time, in ms: the values the clock is observed at
Elapsed == {0, 100, 300}

Progress == {0, 4, FullProgress}

VARIABLES
  \* Sprite / Container / Component fields
  disposed, dataInvalid, dataValidationProgress, layoutInvalid,
  positionInvalid, invalid, skipRangeEvent,
  \* registry
  invalidDatas, invalidRawDatas, invalidDataItems, invalidDataRange,
  invalidLayouts, invalidPositions, invalidSprites,
  \* the animation ticking list (its length)
  animations,
  \* System fields, and the frame callbacks raf() has queued
  frameRequested, updateStepDuration, rafPending,
  \* update(): position and locals
  pc, key, elapsed, skippedComponents, skippedSprites, hasSkipped, count,
  \* call recording (test double): the validation calls of the last step,
  \* the validateData calls of the running update(), the nodes
  \* raiseCriticalError was delivered to, the components whose validateData
  \* threw and that were not invalidated since, whether requestFrame() was
  \* called during the running update()
  calls, dataCalls, dataAtStart, criticalErrors, failed, requestedInUpdate,
  \* bounded counters
  envOps, faults,
  \* call recording: the validateLayout() calls each container got in the
  \* running validateLayouts()
  layoutCalls,
  \* call recording: the events the last step dispatched, in order, each
  \* with its target (NoNode: the registry or the idle callbacks)
  dispatched,
  \* call recording: the elements the render pass took from the list of
  \* the running key
  processed,
  \* the global list svgContainers, the _disposed field of each SVGContainer
  \* and how often dispose() was called on it
  svgContainers, svgDisposed, svgDisposeCalls,
  \* ExportMenu: the unsupported flags of the items of one menu, whether
  \* the items have ascendants, the running getNextSibling / getPrevSibling
  \* call (its name, its argument, the argument of the innermost recursive
  \* call, the depth of the recursion) and what it returned
  menu, ascendants, navCall, navBranch, navAt, navDepth, navResult,
  \* TreeMap: the rectangle and value of a parent data item, the values of
  \* its children, the rectangles the layout algorithm gave the children,
  \* and which algorithm ran
  treeParent, treeChildren, treeRects, layoutAlgorithm,
  \* ChordDiagram: the links of the data, the properties minNodeSize and
  \* nonRibbon, and what validate() set: valueAngle, each node's
  \* adjustedTotal and its slice's arc and startAngle
  chordLinks, minNodeSize, nonRibbon, valueAngle, chordSlices, chordValidated,
  \* ExportMenu: the closeTimeout of each branch (0: undefined, else the
  \* timer it names), the timers that are set and have neither fired nor
  \* been cleared, which branches carry the class "active",
  \* _currentSelection, the clock, the timers set so far
  closeTimeout, timeouts, active, currentSelection, menuClock, nextTimeout,
  \* call recording: the last call or timer of the menu, and the timers that
  \* were set for a branch before it or one of its descendants was selected
  menuEvent, staleTimeouts,
  \* DataSource: _reloadFrequency, whether _reloadDisposer holds the
  \* listener of "ended", _reloadTimeout (0: undefined, else the timer it
  \* names), the reload timers that are set and have neither fired nor been
  \* cleared, the loads in flight, whether the source is disposed, the
  \* timers set so far, and the last call or event with what started it
  reloadFrequency, reloadDisposer, reloadTimeout, reloadTimers, loading,
  sourceDisposed, nextReload, sourceEvent,
  \* registry: the ids getUniqueId() gave out, baseSprites, baseSpritesByUid
  \* (0: undefined), the container of each created sprite, the sprites that
  \* are disposed, and how the last create() call ended
  uidCount, baseSprites, baseSpritesByUid, htmlContainerOf, baseDisposed,
  created,
  \* the nodes whose validation calls throw on every call
  throwing

nodeVars == <<disposed, dataInvalid, dataValidationProgress, layoutInvalid,
              positionInvalid, invalid, skipRangeEvent>>

dataBuckets == <<invalidDatas, invalidRawDatas, invalidDataItems, invalidDataRange>>

spriteBuckets == <<invalidLayouts, invalidPositions, invalidSprites>>

frameVars == <<frameRequested, rafPending, requestedInUpdate>>

localVars == <<key, elapsed, skippedComponents, skippedSprites, hasSkipped, count,
              processed>>

logVars == <<calls, dataCalls, dataAtStart, criticalErrors, failed>>

counters == <<envOps, faults>>

\* the state of the library outside the scheduler
svgVars == <<svgContainers, svgDisposed, svgDisposeCalls>>

menuVars == <<menu, ascendants, navCall, navBranch, navAt, navDepth, navResult>>

treeVars == <<treeParent, treeChildren, treeRects, layoutAlgorithm>>

chordVars == <<chordLinks, minNodeSize, nonRibbon, valueAngle, chordSlices,
               chordValidated>>

closeVars == <<closeTimeout, timeouts, active, currentSelection, menuClock,
               nextTimeout, menuEvent, staleTimeouts>>

sourceVars == <<reloadFrequency, reloadDisposer, reloadTimeout, reloadTimers,
                loading, sourceDisposed, nextReload, sourceEvent>>

registryVars == <<uidCount, baseSprites, baseSpritesByUid, htmlContainerOf,
                  baseDisposed, created>>

\* the variables of the library models that follow the chord diagram
moreVars == <<closeVars, sourceVars, registryVars>>

\* what no step of update() and no event between frames writes: the state
\* of the library models and the set of the nodes that always throw
libraryVars == <<svgVars, menuVars, treeVars, chordVars, moreVars, throwing>>

\* the scheduler, its registry and its scene
systemVars == <<nodeVars, dataBuckets, spriteBuckets, animations, frameVars,
                updateStepDuration, pc, localVars, logVars, counters,
                layoutCalls, dispatched, throwing>>

vars == <<nodeVars, dataBuckets, spriteBuckets, animations, frameVars,
          updateStepDuration, pc, localVars, logVars, counters, layoutCalls,
          dispatched, libraryVars>>

(***************************************************************************)
(* Array helpers ($array, utils/Array)                                     *)
(***************************************************************************)
\* $array.remove(array, element)
Remove(array, element) == SelectSeq(array, LAMBDA x : x # element)

Contains(array, element) == \E i \in 1..Len(array) : array[i] = element

\* idempotent insertion at the end of a bucket
Add(array, element) ==
  IF Contains(array, element) THEN array ELSE Append(array, element)

Last(array) == array[Len(array)]

Range(array) == {array[i] : i \in 1..Len(array)}

\* the elements of seq that satisfy Test, in order
Filter(seq, Test(_)) == SelectSeq(seq, Test)

(***************************************************************************)
(* Construction.  Every flag starts invalid and every node is registered   *)
(* in the buckets of its kind: the sprite buckets in creation order, the   *)
(* data buckets in the order the components were given their data (the     *)
(* dependants before their providers).  System starts with no frame        *)
(* requested and the startup step duration.                                *)
(***************************************************************************)
CreationOrder == <<"chart", "series", "column", "sbseries", "legend">>

DataOrder == <<"legend", "sbseries", "series", "chart">>

IsComponent(n) == n \in Components

IsContainer(n) == n \in Containers

(***************************************************************************)
(* Numbers.  The coordinates of the treemap and the angles of the chord    *)
(* diagram are fractions; they are kept exact, as numerator / denominator  *)
(* in lowest terms.  The rounding of IEEE doubles is not modelled.         *)
(***************************************************************************)
RECURSIVE GCD(_, _)
GCD(a, b) == IF b = 0 THEN a ELSE GCD(b, a % b)

Abs(a) == IF a < 0 THEN -a ELSE a

\* the number n / d
Number(n, d) ==
  LET g == GCD(Abs(n), Abs(d))
      s == IF d < 0 THEN -1 ELSE 1
  IN  [n |-> (s * n) \div g, d |-> (s * d) \div g]

Whole(i) == [n |-> i, d |-> 1]

Plus(a, b) == Number(a.n * b.d + b.n * a.d, a.d * b.d)

Minus(a, b) == Number(a.n * b.d - b.n * a.d, a.d * b.d)

Times(a, b) == Number(a.n * b.n, a.d * b.d)

Over(a, b) == Number(a.n * b.d, a.d * b.n)

Less(a, b) == a.n * b.d < b.n * a.d

AtMost(a, b) == a.n * b.d <= b.n * a.d

\* Math.max(a, b)
MathMax(a, b) == IF Less(a, b) THEN b ELSE a

\* The numbers squarify() derives from ratio = (1 + Math.sqrt(5)) / 2 are
\* all of the form q * ratio^e with q a positive fraction: [q, e].
Golden(q, e) == [q |-> q, e |-> e]

\* n / d > ratio for positive integers n and d, decided exactly: ratio is
\* irrational and ratio = 1 + 1 / ratio, so n / d > ratio iff n > d and
\* d / (n - d) < ratio.
RECURSIVE AboveRatio(_, _)
AboveRatio(n, d) == n > d /\ ~AboveRatio(d, n - d)

\* x > ratio^k for a positive fraction x and k in {-2, 0, 2}:
\* ratio^2 = ratio + 1, and x > ratio^-2 iff 1 / x < ratio^2.
AboveRatioPower(x, k) ==
  CASE k = 0 -> x.n > x.d
    [] k = 2 -> x.n > x.d /\ AboveRatio(x.n - x.d, x.d)
    [] k = -2 -> x.d <= x.n \/ ~AboveRatio(x.d - x.n, x.n)

\* a > b
GoldenGreater(a, b) == AboveRatioPower(Over(a.q, b.q), b.e - a.e)

\* Math.max(a, b)
GoldenMax(a, b) == IF GoldenGreater(b, a) THEN b ELSE a

\* no SVGContainer was constructed yet
SVGIdle ==
  /\ svgContainers = <<>>
  /\ svgDisposed = <<>>
  /\ svgDisposeCalls = <<>>

\* no export menu was drawn yet
MenuIdle ==
  /\ menu = <<>>
  /\ ascendants = FALSE
  /\ navCall = "none"
  /\ navBranch = 0
  /\ navAt = 0
  /\ navDepth = 0
  /\ navResult = 0

\* no treemap was laid out yet
TreeIdle ==
  /\ treeParent = [x0 |-> Whole(0), y0 |-> Whole(0), x1 |-> Whole(0),
                   y1 |-> Whole(0), value |-> 0, level |-> 0]
  /\ treeChildren = <<>>
  /\ treeRects = <<>>
  /\ layoutAlgorithm = "none"

\* no chord diagram was created yet
ChordIdle ==
  /\ chordLinks = <<>>
  /\ minNodeSize = Whole(0)
  /\ nonRibbon = FALSE
  /\ valueAngle = Whole(0)
  /\ chordSlices = <<>>
  /\ chordValidated = FALSE

\* a menu was drawn, nothing is selected and no timer was set
CloseIdle ==
  /\ closeTimeout = [b \in Branches |-> 0]
  /\ timeouts = {}
  /\ active = [b \in Branches |-> FALSE]
  /\ currentSelection = NoBranch
  /\ menuClock = 0
  /\ nextTimeout = 0
  /\ menuEvent = [op |-> "none", branch |-> NoBranch, timeout |-> 0]
  /\ staleTimeouts = {}

\* a data source that was not told to reload and has loaded nothing
SourceIdle ==
  /\ reloadFrequency = 0
  /\ reloadDisposer = FALSE
  /\ reloadTimeout = 0
  /\ reloadTimers = {}
  /\ loading = 0
  /\ sourceDisposed = FALSE
  /\ nextReload = 0
  /\ sourceEvent = [op |-> "none", by |-> "none"]

\* no chart was created yet
RegistryIdle ==
  /\ uidCount = 0
  /\ baseSprites = <<>>
  /\ baseSpritesByUid = [u \in Uids |-> 0]
  /\ htmlContainerOf = [u \in Uids |-> 0]
  /\ baseDisposed = {}
  /\ created = "none"

\* the library models that follow the chord diagram are idle
MoreIdle == CloseIdle /\ SourceIdle /\ RegistryIdle

LibraryIdle == SVGIdle /\ MenuIdle /\ TreeIdle /\ ChordIdle /\ MoreIdle

SceneInit ==
  /\ disposed = [n \in Nodes |-> FALSE]
  /\ dataInvalid = [n \in Components |-> TRUE]
  /\ dataValidationProgress = [n \in Components |-> 0]
  /\ layoutInvalid = [n \in Containers |-> TRUE]
  /\ positionInvalid = [n \in Nodes |-> TRUE]
  /\ invalid = [n \in Nodes |-> TRUE]
  /\ skipRangeEvent = [n \in Components |-> FALSE]
  /\ invalidDatas = DataOrder
  /\ invalidRawDatas = <<>>
  /\ invalidDataItems = DataOrder
  /\ invalidDataRange = DataOrder
  /\ invalidLayouts =
       [id \in KeySet |->
          SelectSeq(CreationOrder, LAMBDA n : IsContainer(n) /\ baseId[n] = id)]
  /\ invalidPositions =
       [id \in KeySet |-> SelectSeq(CreationOrder, LAMBDA n : baseId[n] = id)]
  /\ invalidSprites =
       [id \in KeySet |-> SelectSeq(CreationOrder, LAMBDA n : baseId[n] = id)]
  /\ animations = 0
  /\ frameRequested = FALSE
  /\ updateStepDuration = StartupStepDuration
  /\ rafPending = 0
  /\ pc = "idle"
  /\ key = 1
  /\ elapsed = 0
  /\ skippedComponents = FALSE
  /\ skippedSprites = [alias |-> NoNode, items |-> <<>>]
  /\ hasSkipped = FALSE
  /\ count = 0
  /\ calls = <<>>
  /\ dataCalls = <<>>
  /\ dataAtStart = {}
  /\ criticalErrors = {}
  /\ failed = {}
  /\ requestedInUpdate = FALSE
  /\ envOps = 0
  /\ faults = 0
  /\ layoutCalls = [n \in Containers |-> 0]
  /\ dispatched = <<>>
  /\ processed = 0

\* every validation call can return
SystemInit == SceneInit /\ throwing = {}

Init == SystemInit /\ LibraryIdle

(***************************************************************************)
(* System.requestFrame()                                                   *)
(***************************************************************************)
\* a frame callback is handed to raf() without looking at _frameRequested
requestFrameUnguarded ==
  /\ rafPending' = rafPending + 1
  /\ frameRequested' = TRUE

requestFrame ==
  /\ rafPending' = IF ~frameRequested THEN rafPending + 1 ELSE rafPending
  /\ frameRequested' = TRUE

\* a validation call of update() may call system.requestFrame()
MayRequestFrame(rf) ==
  IF rf
    THEN requestFrame /\ requestedInUpdate' = TRUE
    ELSE UNCHANGED frameVars

(***************************************************************************)
(* Call recording: what a test double sees when the scheduler calls a      *)
(* validation method of node n.                                            *)
(***************************************************************************)
ProviderInvalid(n) ==
  /\ n \in Components
  /\ dataProvider[n] # NoNode
  /\ dataInvalid[dataProvider[n]]

OwnDataInvalid(n) == n \in Components /\ dataInvalid[n]

Call(op, n, outcome) ==
  [op |-> op, node |-> n, outcome |-> outcome,
   dataInvalid |-> OwnDataInvalid(n),
   providerInvalid |-> ProviderInvalid(n),
   disposed |-> disposed[n],
   afterFailure |-> n \in failed]

(***************************************************************************)
(* Events between frames.  Each invalidate sets the flag and inserts the   *)
(* node into its bucket once; a disposed node is not inserted.             *)
(***************************************************************************)
EnvStep ==
  /\ pc = "idle"
  /\ envOps < MaxEnvOps
  /\ envOps' = envOps + 1
  /\ UNCHANGED faults

ExternalRequestFrame ==
  /\ pc = "idle"
  /\ requestFrame
  /\ UNCHANGED <<nodeVars, dataBuckets, spriteBuckets, animations,
                 requestedInUpdate, updateStepDuration, pc, localVars,
                 logVars, counters>>

  /\ dispatched' = <<>>
  /\ UNCHANGED <<layoutCalls, libraryVars>>
invalidateData(c) ==
  /\ EnvStep
  /\ ~disposed[c]
  /\ dataInvalid' = [dataInvalid EXCEPT ![c] = TRUE]
  /\ invalidDatas' = Add(invalidDatas, c)
  /\ failed' = failed \ {c}
  /\ UNCHANGED <<disposed, dataValidationProgress, layoutInvalid,
                 positionInvalid, invalid, skipRangeEvent, invalidRawDatas,
                 invalidDataItems, invalidDataRange, spriteBuckets, animations,
                 frameVars, updateStepDuration, pc, localVars, calls,
                 dataCalls, dataAtStart, criticalErrors>>

  /\ dispatched' = <<>>
  /\ UNCHANGED <<layoutCalls, libraryVars>>
invalidateRawData(c) ==
  /\ EnvStep
  /\ ~disposed[c]
  /\ invalidRawDatas' = Add(invalidRawDatas, c)
  /\ UNCHANGED <<nodeVars, invalidDatas, invalidDataItems, invalidDataRange,
                 spriteBuckets, animations, frameVars, updateStepDuration, pc,
                 localVars, logVars>>

  /\ dispatched' = <<>>
  /\ UNCHANGED <<layoutCalls, libraryVars>>
invalidateDataItems(c) ==
  /\ EnvStep
  /\ ~disposed[c]
  /\ invalidDataItems' = Add(invalidDataItems, c)
  /\ UNCHANGED <<nodeVars, invalidDatas, invalidRawDatas, invalidDataRange,
                 spriteBuckets, animations, frameVars, updateStepDuration, pc,
                 localVars, logVars>>

  /\ dispatched' = <<>>
  /\ UNCHANGED <<layoutCalls, libraryVars>>
invalidateDataRange(c) ==
  /\ EnvStep
  /\ ~disposed[c]
  /\ invalidDataRange' = Add(invalidDataRange, c)
  /\ UNCHANGED <<nodeVars, invalidDatas, invalidRawDatas, invalidDataItems,
                 spriteBuckets, animations, frameVars, updateStepDuration, pc,
                 localVars, logVars>>

  /\ dispatched' = <<>>
  /\ UNCHANGED <<layoutCalls, libraryVars>>
\* the range of a component is changed with the notification suppressed:
\* skipRangeEvent is set and the data range is invalidated
suppressRangeEvent(c) ==
  /\ EnvStep
  /\ ~disposed[c]
  /\ skipRangeEvent' = [skipRangeEvent EXCEPT ![c] = TRUE]
  /\ invalidDataRange' = Add(invalidDataRange, c)
  /\ UNCHANGED <<disposed, dataInvalid, dataValidationProgress, layoutInvalid,
                 positionInvalid, invalid, invalidDatas, invalidRawDatas,
                 invalidDataItems, spriteBuckets, animations, frameVars,
                 updateStepDuration, pc, localVars, logVars>>
  /\ dispatched' = <<>>
  /\ UNCHANGED <<layoutCalls, libraryVars>>

invalidateLayout(c) ==
  /\ EnvStep
  /\ ~disposed[c]
  /\ layoutInvalid' = [layoutInvalid EXCEPT ![c] = TRUE]
  /\ invalidLayouts' =
       [invalidLayouts EXCEPT ![baseId[c]] = Add(@, c)]
  /\ UNCHANGED <<disposed, dataInvalid, dataValidationProgress,
                 positionInvalid, invalid, skipRangeEvent, dataBuckets,
                 invalidPositions, invalidSprites, animations, frameVars,
                 updateStepDuration, pc, localVars, logVars>>

  /\ dispatched' = <<>>
  /\ UNCHANGED <<layoutCalls, libraryVars>>
\* sprite.parent, as a set: the containers that hold n as a child
Parents(n) == {p \in Containers : n \in Range(children[p])}

\* one event handler calls invalidateLayout() twice: on a container and then
\* on the same container or on its parent
invalidateLayoutTwice(c, d) ==
  /\ EnvStep
  /\ ~disposed[c]
  /\ ~disposed[d]
  /\ layoutInvalid' = [layoutInvalid EXCEPT ![c] = TRUE, ![d] = TRUE]
  /\ invalidLayouts' =
       LET once == [invalidLayouts EXCEPT ![baseId[c]] = Add(@, c)] IN
       [once EXCEPT ![baseId[d]] = Add(@, d)]
  /\ UNCHANGED <<disposed, dataInvalid, dataValidationProgress,
                 positionInvalid, invalid, skipRangeEvent, dataBuckets,
                 invalidPositions, invalidSprites, animations, frameVars,
                 updateStepDuration, pc, localVars, logVars>>
  /\ dispatched' = <<>>
  /\ UNCHANGED <<layoutCalls, libraryVars>>

invalidatePosition(n) ==
  /\ EnvStep
  /\ ~disposed[n]
  /\ positionInvalid' = [positionInvalid EXCEPT ![n] = TRUE]
  /\ invalidPositions' =
       [invalidPositions EXCEPT ![baseId[n]] = Add(@, n)]
  /\ UNCHANGED <<disposed, dataInvalid, dataValidationProgress, layoutInvalid,
                 invalid, skipRangeEvent, dataBuckets, invalidLayouts,
                 invalidSprites, animations, frameVars, updateStepDuration,
                 pc, localVars, logVars>>

  /\ dispatched' = <<>>
  /\ UNCHANGED <<layoutCalls, libraryVars>>
invalidate(n) ==
  /\ EnvStep
  /\ ~disposed[n]
  /\ invalid' = [invalid EXCEPT ![n] = TRUE]
  /\ invalidSprites' =
       [invalidSprites EXCEPT ![baseId[n]] = Add(@, n)]
  /\ UNCHANGED <<disposed, dataInvalid, dataValidationProgress, layoutInvalid,
                 positionInvalid, skipRangeEvent, dataBuckets, invalidLayouts,
                 invalidPositions, animations, frameVars, updateStepDuration,
                 pc, localVars, logVars>>

  /\ dispatched' = <<>>
  /\ UNCHANGED <<layoutCalls, libraryVars>>
\* dispose(): the node stays in whatever bucket holds it (lazy removal)
dispose(n) ==
  /\ EnvStep
  /\ ~disposed[n]
  /\ disposed' = [disposed EXCEPT ![n] = TRUE]
  /\ UNCHANGED <<dataInvalid, dataValidationProgress, layoutInvalid,
                 positionInvalid, invalid, skipRangeEvent, dataBuckets,
                 spriteBuckets, animations, frameVars, updateStepDuration, pc,
                 localVars, logVars>>

  /\ dispatched' = <<>>
  /\ UNCHANGED <<layoutCalls, libraryVars>>
\* an animation is started: it joins the ticking list
animate ==
  /\ EnvStep
  /\ animations < MaxAnimations
  /\ animations' = animations + 1
  /\ UNCHANGED <<nodeVars, dataBuckets, spriteBuckets, frameVars,
                 updateStepDuration, pc, localVars, logVars>>

  /\ dispatched' = <<>>
  /\ UNCHANGED <<layoutCalls, libraryVars>>
(***************************************************************************)
(* System.update(): entry.  The frame callback queued by raf() runs.       *)
(***************************************************************************)
\* dispatchImmediately(event) on a component or on the registry, and
\* triggerIdle(), as the listeners see them
Dispatch(event, target) == [event |-> event, target |-> target]

\* registry.dispatchImmediately("enterframe") and the locals of update()
update ==
  /\ pc = "idle"
  /\ rafPending > 0
  /\ rafPending' = rafPending - 1
  /\ frameRequested' = FALSE
  /\ requestedInUpdate' = FALSE
  /\ elapsed' = 0
  /\ skippedComponents' = FALSE
  /\ skippedSprites' = [alias |-> NoNode, items |-> <<>>]
  /\ hasSkipped' = FALSE
  /\ count' = 0
  /\ processed' = 0
  /\ key' = 1
  /\ pc' = "invalidDatas"
  /\ calls' = <<>>
  /\ dataCalls' = <<>>
  /\ dataAtStart' = Range(invalidDatas)
  /\ UNCHANGED <<nodeVars, dataBuckets, spriteBuckets, animations,
                 updateStepDuration, criticalErrors, failed, counters>>
  /\ dispatched' = <<Dispatch("enterframe", NoNode)>>
  /\ UNCHANGED <<layoutCalls, libraryVars>>

\* Date.now() - time > this._updateStepDuration
OverBudget(e) == e > updateStepDuration

\* Date.now() read again: the clock never runs backwards, and it passes the
\* step duration only within the bound
Later(e) ==
  /\ e \in Elapsed
  /\ e >= elapsed
  /\ OverBudget(e) /\ ~OverBudget(elapsed) => faults < MaxFaults

\* the disturbances of a run are counted, and its validateData calls
\* recorded, unless some node throws on every call: such a run can repeat
\* a call any number of times, the clock is free to pass the step duration
\* at any check, and the calls on the other nodes return
Counted == throwing = {}

Overrun(e) ==
  IF OverBudget(e) /\ ~OverBudget(elapsed) /\ Counted THEN 1 ELSE 0

\* the outcomes a validation call can have within the bounds
Outcomes(canStop) ==
  {"done"} \cup (IF faults < MaxFaults /\ Counted THEN {"throw"} ELSE {})
           \cup (IF canStop /\ faults < MaxFaults /\ Counted
                 THEN {"partial"} ELSE {})

\* the outcomes a validation call on the node can have
OutcomesOf(n, canStop) ==
  IF n \in throwing THEN {"throw"} ELSE Outcomes(canStop)

Fault(outcome) ==
  IF outcome \in {"throw", "partial"} /\ Counted THEN 1 ELSE 0

\* every validation call but validatePosition() stands in a try block
InTryBlockButPosition(op) == op # "validatePosition"

\* the validation calls update(), validateLayouts() and validatePositions()
\* make stand in a try block with a catch
InTryBlock(op) ==
  op \in {"validateData", "validateRawData", "validateDataItems",
          "validateDataRange", "validateLayout", "validatePosition",
          "validate"}

\* where update() goes on after a call: an exception that no catch takes
\* leaves update() and reaches the caller of the frame callback
After(op, thrown, next) ==
  IF thrown /\ ~InTryBlock(op) THEN "thrown" ELSE next

(***************************************************************************)
(* update(), data pass: one iteration of while (invalidDatas.length > 0)   *)
(***************************************************************************)
\* who gets validateData(): the provider while its data is invalid
DataTarget(component) ==
  IF dataProvider[component] # NoNode /\ dataInvalid[dataProvider[component]]
    THEN dataProvider[component]
    ELSE component

\* an exception ends the pass as a chunk does
DataPassStopsOnThrow(outcome, progress) ==
  outcome = "throw" \/ progress < FullProgress

\* try { x.validateData(); if (x.dataValidationProgress < 1) break; }
\* catch (e) { ... }: the break is reached when the call returned, and the
\* catch block goes on with the loop
DataPassStops(outcome, progress) ==
  outcome # "throw" /\ progress < FullProgress

\* catch (e) { $array.remove(registry.invalidDatas, x) ... }
CaughtData(array, target) == Remove(array, target)

\* Component.validateData(): the progress it leaves
ProgressAfter(c, outcome) ==
  CASE outcome = "done" -> FullProgress
    [] outcome = "partial" -> 4
    [] OTHER -> dataValidationProgress[c]

dataPassExit ==
  /\ pc = "invalidDatas"
  /\ invalidDatas = <<>>
  /\ pc' = "invalidRawDatas"
  /\ calls' = <<>>
  /\ UNCHANGED <<nodeVars, dataBuckets, spriteBuckets, animations, frameVars,
                 updateStepDuration, localVars, dataCalls, dataAtStart,
                 criticalErrors, failed, counters>>

  /\ dispatched' = <<>>
  /\ UNCHANGED <<layoutCalls, libraryVars>>
dataPassDisposed ==
  /\ pc = "invalidDatas"
  /\ invalidDatas # <<>>
  /\ disposed[invalidDatas[1]]
  /\ invalidDatas' = Remove(invalidDatas, invalidDatas[1])
  /\ calls' = <<>>
  /\ \E e \in Elapsed :
       /\ Later(e)
       /\ elapsed' = e
       /\ faults' = faults + Overrun(e)
       /\ skippedComponents' = OverBudget(e)
       /\ pc' = IF OverBudget(e) THEN "invalidRawDatas" ELSE "invalidDatas"
  /\ UNCHANGED <<nodeVars, invalidRawDatas, invalidDataItems, invalidDataRange,
                 spriteBuckets, animations, frameVars, updateStepDuration,
                 key, skippedSprites, hasSkipped, count, processed, dataCalls,
                 dataAtStart, criticalErrors, failed, envOps>>

  /\ dispatched' = <<>>
  /\ UNCHANGED <<layoutCalls, libraryVars>>
dataPassValidate ==
  /\ pc = "invalidDatas"
  /\ invalidDatas # <<>>
  /\ ~disposed[invalidDatas[1]]
  /\ LET target == DataTarget(invalidDatas[1]) IN
     \E outcome \in OutcomesOf(target, TRUE), rf \in BOOLEAN, e \in Elapsed :
       /\ Later(e)
       /\ calls' = <<Call("validateData", target, outcome)>>
       /\ dataCalls' =
            IF Counted
            THEN Append(dataCalls, [node |-> target, outcome |-> outcome])
            ELSE dataCalls
       /\ dataValidationProgress' =
            [dataValidationProgress EXCEPT ![target] = ProgressAfter(target, outcome)]
       /\ dataInvalid' =
            [dataInvalid EXCEPT ![target] = IF outcome = "done" THEN FALSE ELSE @]
       /\ invalidDatas' =
            CASE outcome = "done" -> Remove(invalidDatas, target)
              [] outcome = "throw" -> CaughtData(invalidDatas, target)
              [] OTHER -> invalidDatas
       /\ criticalErrors' =
            IF outcome = "throw" THEN criticalErrors \cup {target} ELSE criticalErrors
       /\ failed' = IF outcome = "throw" THEN failed \cup {target} ELSE failed
       /\ MayRequestFrame(rf)
       /\ IF DataPassStops(outcome, ProgressAfter(target, outcome))
            THEN /\ pc' = "invalidRawDatas"
                 /\ e = elapsed
                 /\ faults' = faults + Fault(outcome)
                 /\ UNCHANGED <<elapsed, skippedComponents>>
            ELSE /\ faults + Fault(outcome) + Overrun(e) <= MaxFaults
                 /\ elapsed' = e
                 /\ faults' = faults + Fault(outcome) + Overrun(e)
                 /\ skippedComponents' = OverBudget(e)
                 /\ pc' = After("validateData", outcome = "throw",
                                IF OverBudget(e) THEN "invalidRawDatas"
                                ELSE "invalidDatas")
  /\ UNCHANGED <<disposed, layoutInvalid, positionInvalid, invalid,
                 skipRangeEvent, invalidRawDatas, invalidDataItems,
                 invalidDataRange, spriteBuckets, animations,
                 updateStepDuration, key, skippedSprites, hasSkipped, count, processed,
                 dataAtStart, envOps>>

  /\ dispatched' = <<>>
  /\ UNCHANGED <<layoutCalls, libraryVars>>
(***************************************************************************)
(* update(), raw-data pass                                                 *)
(***************************************************************************)
rawDataPassExit ==
  /\ pc = "invalidRawDatas"
  /\ invalidRawDatas = <<>>
  /\ pc' = "invalidDataItems"
  /\ calls' = <<>>
  /\ UNCHANGED <<nodeVars, dataBuckets, spriteBuckets, animations, frameVars,
                 updateStepDuration, localVars, dataCalls, dataAtStart,
                 criticalErrors, failed, counters>>

  /\ dispatched' = <<>>
  /\ UNCHANGED <<layoutCalls, libraryVars>>
\* a catch block that leaves the component in the bucket
CaughtRawDataKept(array, component) == array

\* catch (e) { $array.remove(registry.invalidRawDatas, component) ... }
CaughtRawData(array, component) == Remove(array, component)

rawDataPassValidate ==
  /\ pc = "invalidRawDatas"
  /\ invalidRawDatas # <<>>
  /\ LET component == invalidRawDatas[1] IN
     \E outcome \in IF disposed[component] THEN {"skip"}
                    ELSE OutcomesOf(component, FALSE),
        rf \in IF disposed[component] THEN {FALSE} ELSE BOOLEAN :
       /\ calls' = IF outcome = "skip" THEN <<>>
                   ELSE <<Call("validateRawData", component, outcome)>>
       /\ invalidRawDatas' =
            IF outcome = "throw"
            THEN CaughtRawData(invalidRawDatas, component)
            ELSE Remove(invalidRawDatas, component)
       /\ criticalErrors' =
            IF outcome = "throw" THEN criticalErrors \cup {component}
            ELSE criticalErrors
       /\ faults' = faults + Fault(outcome)
       /\ MayRequestFrame(rf)
       /\ pc' = After("validateRawData", outcome = "throw", "invalidRawDatas")
  /\ UNCHANGED <<nodeVars, invalidDatas, invalidDataItems, invalidDataRange,
                 spriteBuckets, animations, updateStepDuration, localVars,
                 dataCalls, dataAtStart, failed, envOps>>

  /\ dispatched' = <<>>
  /\ UNCHANGED <<layoutCalls, libraryVars>>
(***************************************************************************)
(* update(), data-items pass and data-range pass                           *)
(***************************************************************************)
\* the provider's data is not looked at
DataItemsGatedOwnOnly(component) ==
  disposed[component] \/ dataInvalid[component]

\* component.isDisposed() || component.dataInvalid ||
\* (dataProvider && dataProvider.dataInvalid)
DataItemsGated(component) ==
  disposed[component] \/ dataInvalid[component] \/ ProviderInvalid(component)

DataRangeGated(component) ==
  disposed[component] \/ dataInvalid[component] \/ ProviderInvalid(component)

dataItemsPassExit ==
  /\ pc = "invalidDataItems"
  /\ invalidDataItems = <<>>
  /\ pc' = "invalidDataRange"
  /\ calls' = <<>>
  /\ UNCHANGED <<nodeVars, dataBuckets, spriteBuckets, animations, frameVars,
                 updateStepDuration, localVars, dataCalls, dataAtStart,
                 criticalErrors, failed, counters>>

  /\ dispatched' = <<>>
  /\ UNCHANGED <<layoutCalls, libraryVars>>
dataItemsPassValidate ==
  /\ pc = "invalidDataItems"
  /\ invalidDataItems # <<>>
  /\ LET component == invalidDataItems[1]
         gated == DataItemsGated(component) IN
     \E outcome \in IF gated THEN {"skip"} ELSE OutcomesOf(component, FALSE),
        rf \in IF gated THEN {FALSE} ELSE BOOLEAN :
       /\ calls' = IF outcome = "skip" THEN <<>>
                   ELSE <<Call("validateDataItems", component, outcome)>>
       /\ invalidDataItems' = Remove(invalidDataItems, component)
       /\ criticalErrors' =
            IF outcome = "throw" THEN criticalErrors \cup {component}
            ELSE criticalErrors
       /\ faults' = faults + Fault(outcome)
       /\ MayRequestFrame(rf)
       /\ pc' = After("validateDataItems", outcome = "throw", "invalidDataItems")
  /\ UNCHANGED <<nodeVars, invalidDatas, invalidRawDatas, invalidDataRange,
                 spriteBuckets, animations, updateStepDuration, localVars,
                 dataCalls, dataAtStart, failed, envOps>>

  /\ dispatched' = <<>>
  /\ UNCHANGED <<layoutCalls, libraryVars>>
dataRangePassExit ==
  /\ pc = "invalidDataRange"
  /\ invalidDataRange = <<>>
  /\ pc' = "layouts"
  /\ key' = 1
  /\ calls' = <<>>
  /\ UNCHANGED <<nodeVars, dataBuckets, spriteBuckets, animations, frameVars,
                 updateStepDuration, elapsed, skippedComponents,
                 skippedSprites, hasSkipped, count, processed, dataCalls, dataAtStart,
                 criticalErrors, failed, counters>>

  /\ dispatched' = <<>>
  /\ UNCHANGED <<layoutCalls, libraryVars>>
\* the notification dispatched whatever component.skipRangeEvent says
RangeEventAlways(component, outcome) ==
  IF outcome = "done"
  THEN <<Dispatch("datarangechanged", component)>> ELSE <<>>

\* if (!component.skipRangeEvent) dispatchImmediately("datarangechanged"),
\* reached when validateDataRange() returned
RangeEvent(component, outcome) ==
  IF outcome = "done" /\ ~skipRangeEvent[component]
  THEN <<Dispatch("datarangechanged", component)>> ELSE <<>>

dataRangePassValidate ==
  /\ pc = "invalidDataRange"
  /\ invalidDataRange # <<>>
  /\ LET component == invalidDataRange[1]
         gated == DataRangeGated(component) IN
     \E outcome \in IF gated THEN {"skip"} ELSE OutcomesOf(component, FALSE),
        rf \in IF gated THEN {FALSE} ELSE BOOLEAN :
       /\ calls' = IF outcome = "skip" THEN <<>>
                   ELSE <<Call("validateDataRange", component, outcome)>>
       /\ dispatched' = RangeEvent(component, outcome)
       /\ skipRangeEvent' =
            [skipRangeEvent EXCEPT ![component] = IF outcome = "done" THEN FALSE ELSE @]
       /\ invalidDataRange' = Remove(invalidDataRange, component)
       /\ criticalErrors' =
            IF outcome = "throw" THEN criticalErrors \cup {component}
            ELSE criticalErrors
       /\ faults' = faults + Fault(outcome)
       /\ MayRequestFrame(rf)
       /\ pc' = After("validateDataRange", outcome = "throw", "invalidDataRange")
  /\ UNCHANGED <<disposed, dataInvalid, dataValidationProgress, layoutInvalid,
                 positionInvalid, invalid, invalidDatas, invalidRawDatas,
                 invalidDataItems, spriteBuckets, animations,
                 updateStepDuration, localVars, dataCalls, dataAtStart, failed,
                 envOps>>

  /\ UNCHANGED <<layoutCalls, libraryVars>>
(***************************************************************************)
(* System.validateLayouts(id) and System.validatePositions(id): one        *)
(* iteration of their while loops.  The calls of one iteration are made in *)
(* order; when the k-th throws the later ones are not made.                *)
(***************************************************************************)
\* the first k calls of cs were made (all of them when k = 0, none throwing)
Made(cs, k) == IF k = 0 THEN cs ELSE SubSeq(cs, 1, k)

\* the calls that returned normally
Returned(cs, k) == IF k = 0 THEN Range(cs) ELSE {cs[i] : i \in 1..(k - 1)}

Thrower(k) == IF k = 0 \/ ~Counted THEN 0 ELSE 1

CallLog(op, cs, k) ==
  [i \in 1..Len(Made(cs, k)) |->
     Call(op, cs[i], IF i = k THEN "throw" ELSE "done")]

\* which calls may throw within the bound
Throwers(cs) ==
  LET always == {i \in 1..Len(cs) : cs[i] \in throwing}
      first == CHOOSE i \in always : \A j \in always : i <= j
  IN  IF always # {}
      THEN {first}
      ELSE IF faults < MaxFaults /\ Counted THEN 0..Len(cs) ELSE {0}

\* container.validateLayout() ahead of the children
LayoutCallsParentFirst(container) ==
  <<container>> \o
    SelectSeq(children[container],
              LAMBDA s : s \in Containers /\ layoutInvalid[s] /\ ~disposed[s])

\* children.each(sprite instanceof Container && sprite.layoutInvalid &&
\* !sprite.isDisposed()) then container.validateLayout()
LayoutCalls(container) ==
  SelectSeq(children[container],
            LAMBDA s : s \in Containers /\ layoutInvalid[s] /\ ~disposed[s])
    \o <<container>>

\* children.each(sprite.positionInvalid) then sprite.validatePosition()
PositionCalls(sprite) ==
  (IF sprite \in Containers
     THEN SelectSeq(children[sprite], LAMBDA s : positionInvalid[s])
     ELSE <<>>)
    \o <<sprite>>

\* the end of a `for (key in ...)` loop body: the next key, or the code
\* after the loop
NextKey(at, after) ==
  IF key < Len(Keys)
    THEN key' = key + 1 /\ pc' = at
    ELSE key' = 1 /\ pc' = after

validateLayoutsStep(at) ==
  /\ pc = at
  /\ invalidLayouts[Keys[key]] # <<>>
  /\ LET id == Keys[key]
         container == Last(invalidLayouts[id]) IN
     IF disposed[container]
       THEN /\ invalidLayouts' =
                 [invalidLayouts EXCEPT ![id] = Remove(@, container)]
            /\ calls' = <<>>
            /\ pc' = at
            /\ UNCHANGED <<layoutInvalid, criticalErrors, faults, frameVars,
                           layoutCalls>>
       ELSE LET cs == LayoutCalls(container) IN
            \E k \in Throwers(cs), rf \in BOOLEAN :
              LET gone == Returned(cs, k) \cup
                            (IF k > 0 THEN {container} ELSE {}) IN
              /\ layoutInvalid' =
                   [n \in Containers |->
                      IF n \in gone THEN FALSE ELSE layoutInvalid[n]]
              /\ invalidLayouts' =
                   [i \in KeySet |->
                      SelectSeq(invalidLayouts[i], LAMBDA n : n \notin gone)]
              /\ criticalErrors' =
                   IF k > 0 THEN criticalErrors \cup {container}
                   ELSE criticalErrors
              /\ calls' = CallLog("validateLayout", cs, k)
              /\ layoutCalls' =
                   [n \in Containers |->
                      layoutCalls[n] +
                        (IF n \in Range(Made(cs, k)) THEN 1 ELSE 0)]
              /\ faults' = faults + Thrower(k)
              /\ MayRequestFrame(rf)
              /\ pc' = After("validateLayout", k > 0, at)
  /\ UNCHANGED <<disposed, dataInvalid, dataValidationProgress,
                 positionInvalid, invalid, skipRangeEvent, dataBuckets,
                 invalidPositions, invalidSprites, animations,
                 updateStepDuration, localVars, dataCalls, dataAtStart,
                 failed, envOps>>

  /\ dispatched' = <<>>
  /\ UNCHANGED libraryVars
validatePositionsStep(at) ==
  /\ pc = at
  /\ invalidPositions[Keys[key]] # <<>>
  /\ LET id == Keys[key]
         sprite == Last(invalidPositions[id]) IN
     IF disposed[sprite]
       THEN /\ invalidPositions' =
                 [invalidPositions EXCEPT ![id] = Remove(@, sprite)]
            /\ calls' = <<>>
            /\ pc' = at
            /\ UNCHANGED <<positionInvalid, criticalErrors, faults, frameVars>>
       ELSE LET cs == PositionCalls(sprite) IN
            \E k \in Throwers(cs), rf \in BOOLEAN :
              LET gone == Returned(cs, k) \cup
                            (IF k > 0 THEN {sprite} ELSE {}) IN
              /\ positionInvalid' =
                   [n \in Nodes |->
                      IF n \in gone THEN FALSE ELSE positionInvalid[n]]
              /\ invalidPositions' =
                   [i \in KeySet |->
                      SelectSeq(invalidPositions[i], LAMBDA n : n \notin gone)]
              /\ criticalErrors' =
                   IF k > 0 THEN criticalErrors \cup {sprite}
                   ELSE criticalErrors
              /\ calls' = CallLog("validatePosition", cs, k)
              /\ faults' = faults + Thrower(k)
              /\ MayRequestFrame(rf)
              /\ pc' = After("validatePosition", k > 0, at)
  /\ UNCHANGED <<disposed, dataInvalid, dataValidationProgress, layoutInvalid,
                 invalid, skipRangeEvent, dataBuckets, invalidLayouts,
                 invalidSprites, animations, updateStepDuration, localVars,
                 dataCalls, dataAtStart, failed, envOps>>

  /\ dispatched' = <<>>
  /\ UNCHANGED <<layoutCalls, libraryVars>>
\* the while loop of validateLayouts / validatePositions ends
PassDone(at, bucket) ==
  /\ pc = at
  /\ bucket[Keys[key]] = <<>>
  /\ calls' = <<>>
  /\ UNCHANGED <<nodeVars, dataBuckets, spriteBuckets, animations, frameVars,
                 updateStepDuration, elapsed, skippedComponents,
                 skippedSprites, hasSkipped, count, processed, dataCalls, dataAtStart,
                 criticalErrors, failed, counters>>

  /\ layoutCalls' = [n \in Containers |-> 0]
  /\ dispatched' = <<>>
  /\ UNCHANGED libraryVars
\* for (key in registry.invalidLayouts) this.validateLayouts(key)
layoutsBefore == validateLayoutsStep("layouts")

layoutsBeforeDone ==
  /\ PassDone("layouts", invalidLayouts)
  /\ NextKey("layouts", "positions")

\* for (key in registry.invalidPositions) this.validatePositions(key)
positionsBefore == validatePositionsStep("positions")

\* ... then hasSkipped = false, time = Date.now(), the first key of
\* registry.invalidSprites and count = 0
positionsBeforeDone ==
  /\ pc = "positions"
  /\ invalidPositions[Keys[key]] = <<>>
  /\ calls' = <<>>
  /\ NextKey("positions", "invalidSprites")
  /\ elapsed' = IF key < Len(Keys) THEN elapsed ELSE 0
  /\ count' = 0
  /\ processed' = 0
  /\ UNCHANGED <<nodeVars, dataBuckets, spriteBuckets, animations, frameVars,
                 updateStepDuration, skippedComponents, skippedSprites,
                 hasSkipped, dataCalls, dataAtStart, criticalErrors, failed,
                 counters>>

  /\ dispatched' = <<>>
  /\ UNCHANGED <<layoutCalls, libraryVars>>
(***************************************************************************)
(* update(), render pass: for (key in registry.invalidSprites)             *)
(***************************************************************************)
\* sprite instanceof Component && (sprite.dataInvalid ||
\*   (sprite.dataProvider && sprite.dataProvider.dataInvalid)), or
\* sprite.dataItem.component.dataInvalid && !...isTemplate
RenderGated(sprite) ==
  \/ OwnDataInvalid(sprite)
  \/ ProviderInvalid(sprite)
  \/ /\ dataItemComponent[sprite] # NoNode
     /\ dataInvalid[dataItemComponent[sprite]]
     /\ ~isTemplate[dataItemComponent[sprite]]

\* the same test on a child reached through its container
ChildGated(child) ==
  \/ OwnDataInvalid(child)
  \/ ProviderInvalid(child)
  \/ /\ dataItemComponent[child] # NoNode
     /\ dataInvalid[dataItemComponent[child]]

Index(seq, x) == CHOOSE i \in 1..Len(seq) : seq[i] = x

\* children.each(child.invalid): the children the container branch visits
Visited(sprite) ==
  IF sprite \in Containers
    THEN SelectSeq(children[sprite], LAMBDA c : invalid[c])
    ELSE <<>>

\* child.validate() for the visited children that are not gated, then
\* sprite.validate()
RenderCalls(sprite) ==
  SelectSeq(Visited(sprite), LAMBDA c : ~ChildGated(c)) \o <<sprite>>

\* skippedSprites.push(child): the gated children visited before call k threw
PushedChildren(sprite, k) ==
  LET visit == Visited(sprite)
      cs == RenderCalls(sprite)
      upTo == IF k = 0 \/ k = Len(cs) THEN Len(visit) ELSE Index(visit, cs[k])
  IN SelectSeq(SubSeq(visit, 1, upTo), ChildGated)

\* $array.remove(invalidSprites, sprite), also for a skipped element
AfterSkip(array, sprite) == Remove(array, sprite)

SkippedSpritesLength ==
  IF skippedSprites.alias # NoNode
    THEN Len(invalidSprites[skippedSprites.alias])
    ELSE Len(skippedSprites.items)

SkippedComponentsLength ==
  IF skippedComponents THEN Len(invalidDatas) ELSE 0

\* while (invalidSprites.length > 0) is entered once more
spritesLoop ==
  /\ pc = "invalidSprites"
  /\ invalidSprites[Keys[key]] # <<>>
  /\ pc' = "spritesLayouts"
  /\ calls' = <<>>
  /\ UNCHANGED <<nodeVars, dataBuckets, spriteBuckets, animations, frameVars,
                 updateStepDuration, localVars, dataCalls, dataAtStart,
                 criticalErrors, failed, counters>>

  /\ dispatched' = <<>>
  /\ UNCHANGED <<layoutCalls, libraryVars>>
\* the while loop of one key ends: its list is empty
spritesLoopExit ==
  /\ pc = "invalidSprites"
  /\ invalidSprites[Keys[key]] = <<>>
  /\ pc' = "spritesDone"
  /\ calls' = <<>>
  /\ UNCHANGED <<nodeVars, dataBuckets, spriteBuckets, animations, frameVars,
                 updateStepDuration, localVars, dataCalls, dataAtStart,
                 criticalErrors, failed, counters>>

  /\ dispatched' = <<>>
  /\ UNCHANGED <<layoutCalls, libraryVars>>
layoutsInSprites == validateLayoutsStep("spritesLayouts")

layoutsInSpritesDone ==
  /\ PassDone("spritesLayouts", invalidLayouts)
  /\ pc' = "spritesPositions"
  /\ UNCHANGED key

positionsInSprites == validatePositionsStep("spritesPositions")

positionsInSpritesDone ==
  /\ PassDone("spritesPositions", invalidPositions)
  /\ pc' = "sprite"
  /\ UNCHANGED key

\* the clock looked at one element sooner
CheckDueSooner(c) == c + 1 = CheckEvery - 1

\* count++; if (count == 5): the clock is looked at in this iteration
CheckDue(c) == c + 1 = CheckEvery

\* count++; if (count == 5) { if (Date.now() - time > step) { skippedSprites =
\* invalidSprites; break; } count = 0; }
spriteBudgetStop ==
  /\ pc = "sprite"
  /\ CheckDue(count)
  /\ \E e \in Elapsed :
       /\ Later(e)
       /\ OverBudget(e)
       /\ elapsed' = e
       /\ faults' = faults + Overrun(e)
  /\ skippedSprites' = [skippedSprites EXCEPT !.alias = Keys[key]]
  /\ count' = count + 1
  /\ UNCHANGED processed
  /\ pc' = "spritesDone"
  /\ calls' = <<>>
  /\ UNCHANGED <<nodeVars, dataBuckets, spriteBuckets, animations, frameVars,
                 updateStepDuration, key, skippedComponents, hasSkipped,
                 dataCalls, dataAtStart, criticalErrors, failed, envOps>>

  /\ dispatched' = <<>>
  /\ UNCHANGED <<layoutCalls, libraryVars>>
\* the element at the end of the list is taken
spriteValidate ==
  /\ pc = "sprite"
  /\ LET id == Keys[key]
         sprite == Last(invalidSprites[id])
         checked == CheckDue(count) IN
     /\ \E e \in Elapsed :
          /\ Later(e)
          /\ IF checked THEN ~OverBudget(e) /\ elapsed' = e
                        ELSE e = elapsed /\ elapsed' = elapsed
     /\ count' = IF checked THEN 0 ELSE count + 1
     /\ processed' = processed + 1
     /\ IF disposed[sprite]
          THEN /\ invalidSprites' =
                    [invalidSprites EXCEPT ![id] = Remove(@, sprite)]
               /\ calls' = <<>>
               /\ pc' = "invalidSprites"
               /\ UNCHANGED <<invalid, skippedSprites, criticalErrors, faults,
                              frameVars>>
          ELSE IF RenderGated(sprite)
          THEN /\ skippedSprites' =
                    [skippedSprites EXCEPT !.items = Append(@, sprite)]
               /\ invalid' = [invalid EXCEPT ![sprite] = FALSE]
               /\ invalidSprites' =
                    [invalidSprites EXCEPT ![id] = AfterSkip(@, sprite)]
               /\ calls' = <<>>
               /\ pc' = "invalidSprites"
               /\ UNCHANGED <<criticalErrors, faults, frameVars>>
          ELSE LET cs == RenderCalls(sprite) IN
               \E k \in Throwers(cs), rf \in BOOLEAN :
                 LET gone == Returned(cs, k) \cup {sprite} IN
                 /\ skippedSprites' =
                      [skippedSprites EXCEPT
                         !.items = @ \o PushedChildren(sprite, k)]
                 /\ invalid' =
                      [n \in Nodes |-> IF n \in gone THEN FALSE ELSE invalid[n]]
                 /\ invalidSprites' =
                      [i \in KeySet |->
                         SelectSeq(invalidSprites[i], LAMBDA n : n \notin gone)]
                 /\ criticalErrors' =
                      IF k > 0 THEN criticalErrors \cup {sprite}
                      ELSE criticalErrors
                 /\ calls' = CallLog("validate", cs, k)
                 /\ faults' = faults + Thrower(k)
                 /\ MayRequestFrame(rf)
                 /\ pc' = After("validate", k > 0, "invalidSprites")
  /\ UNCHANGED <<disposed, dataInvalid, dataValidationProgress, layoutInvalid,
                 positionInvalid, skipRangeEvent, dataBuckets, invalidLayouts,
                 invalidPositions, animations, updateStepDuration, key,
                 skippedComponents, hasSkipped, dataCalls, dataAtStart, failed,
                 envOps>>

  /\ dispatched' = <<>>
  /\ UNCHANGED <<layoutCalls, libraryVars>>
\* after the while loop: if (Date.now() - time > step) { skippedSprites =
\* invalidSprites; break; }, else the next key with its own count = 0
spritesDone ==
  /\ pc = "spritesDone"
  /\ \E e \in Elapsed :
       /\ Later(e)
       /\ elapsed' = e
       /\ faults' = faults + Overrun(e)
       /\ IF OverBudget(e)
            THEN /\ skippedSprites' = [skippedSprites EXCEPT !.alias = Keys[key]]
                 /\ key' = 1
                 /\ pc' = "afterSprites"
                 /\ UNCHANGED <<count, processed>>
            ELSE /\ NextKey("invalidSprites", "afterSprites")
                 /\ count' = 0
                 /\ processed' = 0
                 /\ UNCHANGED skippedSprites
  /\ calls' = <<>>
  /\ UNCHANGED <<nodeVars, dataBuckets, spriteBuckets, animations, frameVars,
                 updateStepDuration, skippedComponents, hasSkipped, dataCalls,
                 dataAtStart, criticalErrors, failed, envOps>>

  /\ dispatched' = <<>>
  /\ UNCHANGED <<layoutCalls, libraryVars>>
(***************************************************************************)
(* update(), after the render pass                                         *)
(***************************************************************************)
\* hasSkipped; registry.invalidDatas = skippedComponents (the same array);
\* every animation is advanced, and the finished ones leave the list
afterSprites ==
  /\ pc = "afterSprites"
  /\ hasSkipped' = \E i \in KeySet : Len(invalidSprites[i]) > 0
  /\ \E running \in 0..animations : animations' = running
  /\ pc' = "layoutsAfter"
  /\ key' = 1
  /\ calls' = <<>>
  /\ UNCHANGED <<nodeVars, dataBuckets, spriteBuckets, frameVars,
                 updateStepDuration, elapsed, skippedComponents,
                 skippedSprites, count, processed, dataCalls, dataAtStart,
                 criticalErrors, failed, counters>>

  /\ dispatched' = <<>>
  /\ UNCHANGED <<layoutCalls, libraryVars>>
layoutsAfter == validateLayoutsStep("layoutsAfter")

layoutsAfterDone ==
  /\ PassDone("layoutsAfter", invalidLayouts)
  /\ NextKey("layoutsAfter", "positionsAfter")

positionsAfter == validatePositionsStep("positionsAfter")

positionsAfterDone ==
  /\ PassDone("positionsAfter", invalidPositions)
  /\ NextKey("positionsAfter", "exitframe")

\* elements left in a render-dirty list do not count
RearmWithoutSkipped == animations > 0 \/ SkippedComponentsLength > 0

\* if (hasSkipped || animations.length > 0 || skippedComponents.length > 0)
Rearm == hasSkipped \/ animations > 0 \/ SkippedComponentsLength > 0

\* exitframe is dispatched before the idle callbacks run
FrameEndExitFirst == <<Dispatch("exitframe", NoNode), Dispatch("idle", NoNode)>>

\* triggerIdle(); registry.dispatchImmediately("exitframe")
FrameEnd == <<Dispatch("idle", NoNode), Dispatch("exitframe", NoNode)>>

\* triggerIdle(); exitframe; the re-arm; the step duration is relaxed
exitframe ==
  /\ pc = "exitframe"
  /\ IF Rearm THEN requestFrame ELSE UNCHANGED <<frameRequested, rafPending>>
  /\ updateStepDuration' =
       IF SkippedSpritesLength = 0 THEN RelaxedStepDuration
       ELSE updateStepDuration
  /\ pc' = "returned"
  /\ calls' = <<>>
  /\ UNCHANGED <<nodeVars, dataBuckets, spriteBuckets, animations,
                 requestedInUpdate, localVars, dataCalls, dataAtStart,
                 criticalErrors, failed, counters>>

  /\ dispatched' = FrameEnd
  /\ UNCHANGED <<layoutCalls, libraryVars>>
\* update() returns to the event loop: its locals are gone
updateReturn ==
  /\ pc = "returned"
  /\ pc' = "idle"
  /\ key' = 1
  /\ elapsed' = 0
  /\ skippedComponents' = FALSE
  /\ skippedSprites' = [alias |-> NoNode, items |-> <<>>]
  /\ hasSkipped' = FALSE
  /\ count' = 0
  /\ processed' = 0
  /\ calls' = <<>>
  /\ dataCalls' = <<>>
  /\ dataAtStart' = {}
  /\ requestedInUpdate' = FALSE
  /\ UNCHANGED <<nodeVars, dataBuckets, spriteBuckets, animations,
                 frameRequested, rafPending, updateStepDuration,
                 criticalErrors, failed, counters>>

  /\ dispatched' = <<>>
  /\ UNCHANGED <<layoutCalls, libraryVars>>
Next ==
  \/ ExternalRequestFrame
  \/ \E c \in Components : invalidateData(c)
  \/ \E c \in Components : invalidateRawData(c)
  \/ \E c \in Components : invalidateDataItems(c)
  \/ \E c \in Components : invalidateDataRange(c)
  \/ \E c \in Components : suppressRangeEvent(c)
  \/ \E c \in Containers : invalidateLayout(c)
  \/ \E c \in Containers :
       \E d \in {c} \cup Parents(c) : invalidateLayoutTwice(c, d)
  \/ \E n \in Nodes : invalidatePosition(n)
  \/ \E n \in Nodes : invalidate(n)
  \/ \E n \in Nodes : dispose(n)
  \/ animate
  \/ update
  \/ dataPassExit
  \/ dataPassDisposed
  \/ dataPassValidate
  \/ rawDataPassExit
  \/ rawDataPassValidate
  \/ dataItemsPassExit
  \/ dataItemsPassValidate
  \/ dataRangePassExit
  \/ dataRangePassValidate
  \/ layoutsBefore
  \/ layoutsBeforeDone
  \/ positionsBefore
  \/ positionsBeforeDone
  \/ spritesLoop
  \/ spritesLoopExit
  \/ layoutsInSprites
  \/ layoutsInSpritesDone
  \/ positionsInSprites
  \/ positionsInSpritesDone
  \/ spriteBudgetStop
  \/ spriteValidate
  \/ spritesDone
  \/ afterSprites
  \/ layoutsAfter
  \/ layoutsAfterDone
  \/ positionsAfter
  \/ positionsAfterDone
  \/ exitframe
  \/ updateReturn

Spec == Init /\ [][Next]_vars

\* the nodes that throw on every call: a dataProvider, a component that
\* has a dataProvider and is one, or every node
Broken == {{"chart"}, {"series"}, Nodes}

\* the same scene with nodes whose validation calls throw on every call
TerminationInit == SceneInit /\ LibraryIdle /\ throwing \in Broken

\* update() is synchronous code: once called it takes its next step, and
\* the clock it reads goes on
UpdateStep == pc # "idle" /\ Next

TerminationSpec == TerminationInit /\ [][Next]_vars /\ WF_vars(UpdateStep)

TypeOK ==
  /\ rafPending \in 0..2
  /\ frameRequested \in BOOLEAN
  /\ updateStepDuration \in {StartupStepDuration, RelaxedStepDuration}
  /\ elapsed \in Elapsed
  /\ count \in 0..CheckEvery
  /\ pc \in {"idle", "invalidDatas", "invalidRawDatas", "invalidDataItems",
            "invalidDataRange", "layouts", "positions", "invalidSprites",
            "spritesLayouts", "spritesPositions", "sprite", "spritesDone",
            "afterSprites", "layoutsAfter", "positionsAfter", "exitframe",
            "returned", "thrown"}

(***************************************************************************)
(* SVGContainer: the constructor, isDisposed() and dispose().               *)
(***************************************************************************)
\* new SVGContainer(htmlElement): svgContainers.push(this)
SVGContainer ==
  /\ Len(svgDisposed) < MaxSVGContainers
  /\ svgContainers' = Append(svgContainers, Len(svgDisposed) + 1)
  /\ svgDisposed' = Append(svgDisposed, FALSE)
  /\ svgDisposeCalls' = Append(svgDisposeCalls, 0)
  /\ UNCHANGED <<systemVars, moreVars, menuVars, treeVars, chordVars>>

\* isDisposed(): return this._disposed
isDisposed(c) == svgDisposed[c]

\* dispose(): if (!this._disposed) $array.remove(svgContainers, this); the
\* resize sensor is detached.  _disposed is not assigned.
svgDispose(c) ==
  /\ svgDisposeCalls[c] < MaxDisposeCalls
  /\ svgContainers' =
       IF ~svgDisposed[c] THEN Remove(svgContainers, c) ELSE svgContainers
  /\ svgDisposeCalls' = [svgDisposeCalls EXCEPT ![c] = @ + 1]
  /\ UNCHANGED <<svgDisposed, systemVars, moreVars, menuVars, treeVars, chordVars>>

SVGNext ==
  \/ SVGContainer
  \/ \E c \in 1..Len(svgDisposed) : svgDispose(c)

\* no SVGContainer was constructed yet
SVGInit == SystemInit /\ LibraryIdle

SVGSpec == SVGInit /\ [][SVGNext]_vars

(***************************************************************************)
(* ExportMenu: getSiblings(), getNextSibling(), getPrevSibling().  The      *)
(* items of the menu are 1..Len(menu); a recursive call is one step.       *)
(***************************************************************************)
\* getSiblings(branch): parent.menu when the branch has a parent item
getSiblings == IF ascendants THEN menu ELSE <<>>

\* siblings.indexOf(branch) + 1, wrapped
NextIndex(siblings, branch) ==
  IF branch + 1 > Len(siblings) THEN 1 ELSE branch + 1

\* siblings.indexOf(branch) - 1, wrapped
PrevIndex(siblings, branch) ==
  IF branch - 1 < 1 THEN Len(siblings) ELSE branch - 1

\* a menu with its items drawn, and no call running
MenuDrawn ==
  /\ menu \in UNION {[1..n -> BOOLEAN] : n \in 1..MaxMenu}
  /\ ascendants \in BOOLEAN
  /\ navCall = "none"
  /\ navBranch = 0
  /\ navAt = 0
  /\ navDepth = 0
  /\ navResult = 0

siblingCall(name, branch) ==
  /\ navCall = "none"
  /\ navCall' = name
  /\ navBranch' = branch
  /\ navAt' = branch
  /\ navDepth' = 1
  /\ navResult' = 0
  /\ UNCHANGED <<menu, ascendants, systemVars, moreVars, svgVars, treeVars, chordVars>>

getNextSibling(branch) == siblingCall("getNextSibling", branch)

getPrevSibling(branch) == siblingCall("getPrevSibling", branch)

\* the body of the innermost call: it returns, or calls itself on the
\* unsupported sibling it found
siblingBody ==
  /\ navCall # "none"
  /\ navResult = 0
  /\ navDepth <= MaxStack
  /\ LET siblings == getSiblings
         to == IF navCall = "getNextSibling"
                 THEN NextIndex(siblings, navAt)
                 ELSE PrevIndex(siblings, navAt) IN
     IF Len(siblings) > 1
       THEN IF siblings[to]
              THEN /\ navAt' = to
                   /\ navDepth' = navDepth + 1
                   /\ UNCHANGED navResult
              ELSE /\ navResult' = to
                   /\ UNCHANGED <<navAt, navDepth>>
       ELSE /\ navResult' = navAt
            /\ UNCHANGED <<navAt, navDepth>>
  /\ UNCHANGED <<menu, ascendants, navCall, navBranch, systemVars, moreVars, svgVars, treeVars, chordVars>>

\* the call stack is exhausted: the call ends with a RangeError
stackOverflow ==
  /\ navCall # "none"
  /\ navResult = 0
  /\ navDepth > MaxStack
  /\ navResult' = -1
  /\ UNCHANGED <<menu, ascendants, navCall, navBranch, navAt, navDepth,
                 systemVars, moreVars, svgVars, treeVars, chordVars>>

MenuNext ==
  \/ \E branch \in 1..Len(menu) : getNextSibling(branch)
  \/ \E branch \in 1..Len(menu) : getPrevSibling(branch)
  \/ siblingBody
  \/ stackOverflow

\* a menu was drawn and no sibling call was made yet
MenuInit ==
  SystemInit /\ SVGIdle /\ TreeIdle /\ ChordIdle /\ MoreIdle /\ MenuDrawn

MenuSpec == MenuInit /\ [][MenuNext]_vars

(***************************************************************************)
(* TreeMap: the tiling algorithms dice, slice, sliceDice and squarify.     *)
(***************************************************************************)
RECURSIVE Sum(_)
Sum(values) == IF values = <<>> THEN 0 ELSE Head(values) + Sum(Tail(values))

\* A parent data item with its rectangle and the values of its children.
\* parent.value is the item's own value when it has one and the sum of
\* the children's values otherwise; own values below that sum are left out.
TreeMapCreated ==
  /\ treeChildren \in UNION {[1..n -> 1..MaxValue] : n \in 1..MaxChildren}
  /\ \E o \in Origins, dx \in Sides, dy \in Sides, level \in 0..1 :
       \E own \in 0..MaxOwnValue :
         treeParent = [x0 |-> Whole(o[1]), y0 |-> Whole(o[2]),
                       x1 |-> Whole(o[1] + dx), y1 |-> Whole(o[2] + dy),
                       value |-> Sum(treeChildren) + own, level |-> level]
  /\ treeRects = <<>>
  /\ layoutAlgorithm = "none"

\* a data item of the given rectangle, value and children
Item(x0, y0, x1, y1, value, nodes) ==
  [x0 |-> x0, y0 |-> y0, x1 |-> x1, y1 |-> y1, value |-> value,
   children |-> nodes]

\* k = parent.value && (x1 - x0) / parent.value, with every child's share
\* taken as equal
diceKEqualShares(parent) ==
  Over(Minus(parent.x1, parent.x0), Whole(Len(parent.children)))

\* k = parent.value && (x1 - x0) / parent.value
diceK(parent) ==
  IF parent.value = 0 THEN Whole(0)
  ELSE Over(Minus(parent.x1, parent.x0), Whole(parent.value))

\* k = parent.value && (y1 - y0) / parent.value
sliceK(parent) ==
  IF parent.value = 0 THEN Whole(0)
  ELSE Over(Minus(parent.y1, parent.y0), Whole(parent.value))

\* the loop of dice(): node.y0 = y0, node.y1 = y1; node.x0 = x0,
\* node.x1 = x0 += node.value * k
RECURSIVE diceLoop(_, _, _, _)
diceLoop(parent, i, x0, k) ==
  IF i >= Len(parent.children) THEN <<>>
  ELSE LET x1 == Plus(x0, Times(Whole(parent.children[i + 1]), k))
       IN  <<[x0 |-> x0, y0 |-> parent.y0, x1 |-> x1, y1 |-> parent.y1]>>
             \o diceLoop(parent, i + 1, x1, k)

\* the loop of slice(): node.x0 = x0, node.x1 = x1; node.y0 = y0,
\* node.y1 = y0 += node.value * k
RECURSIVE sliceLoop(_, _, _, _)
sliceLoop(parent, i, y0, k) ==
  IF i >= Len(parent.children) THEN <<>>
  ELSE LET y1 == Plus(y0, Times(Whole(parent.children[i + 1]), k))
       IN  <<[x0 |-> parent.x0, y0 |-> y0, x1 |-> parent.x1, y1 |-> y1]>>
             \o sliceLoop(parent, i + 1, y1, k)

\* dice(parent): the rectangles of parent.children
dice(parent) == diceLoop(parent, 0, parent.x0, diceK(parent))

\* slice(parent): the rectangles of parent.children
slice(parent) == sliceLoop(parent, 0, parent.y0, sliceK(parent))

\* sliceDice(parent): parent.level & 1 ? slice(parent) : dice(parent)
sliceDice(parent, level) ==
  IF level % 2 = 1 THEN slice(parent) ELSE dice(parent)

\* do sumValue = nodes.getIndex(i1++).value; while (!sumValue && i1 < n)
RECURSIVE firstNode(_, _)
firstNode(nodes, i1) ==
  LET sumValue == nodes[i1 + 1]
  IN  IF sumValue = 0 /\ i1 + 1 < Len(nodes) THEN firstNode(nodes, i1 + 1)
      ELSE [i1 |-> i1 + 1, sumValue |-> sumValue]

\* alpha = Math.max(dy / dx, dx / dy) / (value * ratio)
alpha(dx, dy, value) ==
  Golden(Over(MathMax(Over(dy, dx), Over(dx, dy)), Whole(value)), -1)

\* beta = sumValue * sumValue * alpha
beta(sumValue, a) == Golden(Times(Whole(sumValue * sumValue), a.q), a.e)

\* Math.max(maxValue / beta, beta / minValue)
aspect(minValue, maxValue, b) ==
  GoldenMax(Golden(Over(Whole(maxValue), b.q), -b.e),
            Golden(Over(b.q, Whole(minValue)), b.e))

\* the row's value when the node that worsens the ratio is kept in the sum
rowValueKept(sumValue, nodeValue) == sumValue

\* sumValue -= nodeValue; break
rowValue(sumValue, nodeValue) == sumValue - nodeValue

\* for (; i1 < n; ++i1): keep adding nodes while the aspect ratio
\* maintains or improves
RECURSIVE addNodes(_, _, _, _, _, _, _)
addNodes(nodes, i1, sumValue, minValue, maxValue, minRatio, a) ==
  IF i1 >= Len(nodes) THEN [i1 |-> i1, sumValue |-> sumValue]
  ELSE LET nodeValue == nodes[i1 + 1]
           sum == sumValue + nodeValue
           min == IF nodeValue < minValue THEN nodeValue ELSE minValue
           max == IF nodeValue > maxValue THEN nodeValue ELSE maxValue
           newRatio == aspect(min, max, beta(sum, a))
       IN  IF GoldenGreater(newRatio, minRatio)
           THEN [i1 |-> i1, sumValue |-> rowValue(sum, nodeValue)]
           ELSE addNodes(nodes, i1 + 1, sum, min, max, newRatio, a)

\* while (i0 < n): one row per turn, laid out by dice() or slice()
RECURSIVE squarifyLoop(_, _, _, _, _, _, _)
squarifyLoop(nodes, i0, x0, y0, x1, y1, value) ==
  IF i0 >= Len(nodes) THEN <<>>
  ELSE LET dx == Minus(x1, x0)
           dy == Minus(y1, y0)
           first == firstNode(nodes, i0)
           a == alpha(dx, dy, value)
           row == addNodes(nodes, first.i1, first.sumValue, first.sumValue,
                           first.sumValue,
                           aspect(first.sumValue, first.sumValue,
                                  beta(first.sumValue, a)), a)
           rowChildren == SubSeq(nodes, i0 + 1, row.i1)
           part == Over(Whole(row.sumValue), Whole(value))
           rowY1 == IF value # 0 THEN Plus(y0, Times(dy, part)) ELSE y1
           rowX1 == IF value # 0 THEN Plus(x0, Times(dx, part)) ELSE x1
       IN  IF Less(dx, dy)
           THEN dice(Item(x0, y0, x1, rowY1, row.sumValue, rowChildren))
                  \o squarifyLoop(nodes, row.i1,
                                  x0, IF value # 0 THEN rowY1 ELSE y0,
                                  x1, y1, value - row.sumValue)
           ELSE slice(Item(x0, y0, rowX1, y1, row.sumValue, rowChildren))
                  \o squarifyLoop(nodes, row.i1,
                                  IF value # 0 THEN rowX1 ELSE x0, y0,
                                  x1, y1, value - row.sumValue)

\* squarify(parent): the rectangles of parent.children
squarify(parent) ==
  squarifyLoop(parent.children, 0, parent.x0, parent.y0, parent.x1,
               parent.y1, parent.value)

\* the parent item handed to this.layoutAlgorithm(parent)
\* sums[i + 1] = sum += nodes.getIndex(i).value, with sums[0] = 0
sums(parent) ==
  [i \in 0..Len(parent.children) |-> Sum(SubSeq(parent.children, 1, i))]

\* while (k < hi) { mid = k + hi >>> 1; if (sums[mid] < valueTarget)
\* k = mid + 1; else hi = mid; }
RECURSIVE bisect(_, _, _, _)
bisect(s, k, hi, valueTarget) ==
  IF k < hi
  THEN LET mid == (k + hi) \div 2
       IN  IF Less(Whole(s[mid]), valueTarget)
           THEN bisect(s, mid + 1, hi, valueTarget)
           ELSE bisect(s, k, mid, valueTarget)
  ELSE k

\* the list always split behind its first element
splitIndexFirst(s, i, j, value) == i + 1

\* the index k at which partition(i, j, value, ...) splits the list:
\* valueTarget = value / 2 + sums[i], the search for the first sums[k] that
\* reaches it, and the step back when sums[k - 1] is nearer
splitIndex(s, i, j, value) ==
  LET valueTarget == Plus(Over(Whole(value), Whole(2)), Whole(s[i]))
      k == bisect(s, i + 1, j - 1, valueTarget)
  IN  IF /\ Less(Minus(valueTarget, Whole(s[k - 1])),
                 Minus(Whole(s[k]), valueTarget))
         /\ i + 1 < k
      THEN k - 1 ELSE k

\* partition(i, j, value, x0, y0, x1, y1): the rectangles of the children
\* i .. j - 1
RECURSIVE partition(_, _, _, _, _, _, _, _)
partition(s, i, j, value, x0, y0, x1, y1) ==
  IF i >= j - 1
  THEN <<[x0 |-> x0, y0 |-> y0, x1 |-> x1, y1 |-> y1]>>
  ELSE LET k == splitIndex(s, i, j, value)
           valueLeft == s[k] - s[i]
           valueRight == value - valueLeft
       IN  IF Less(Minus(y1, y0), Minus(x1, x0))
           THEN LET xk == Over(Plus(Times(x0, Whole(valueRight)),
                                    Times(x1, Whole(valueLeft))),
                               Whole(value))
                IN  partition(s, i, k, valueLeft, x0, y0, xk, y1)
                      \o partition(s, k, j, valueRight, xk, y0, x1, y1)
           ELSE LET yk == Over(Plus(Times(y0, Whole(valueRight)),
                                    Times(y1, Whole(valueLeft))),
                               Whole(value))
                IN  partition(s, i, k, valueLeft, x0, y0, x1, yk)
                      \o partition(s, k, j, valueRight, x0, yk, x1, y1)

binaryTree(parent) ==
  partition(sums(parent), 0, Len(parent.children), parent.value,
            parent.x0, parent.y0, parent.x1, parent.y1)

Parent ==
  Item(treeParent.x0, treeParent.y0, treeParent.x1, treeParent.y1,
       treeParent.value, treeChildren)

\* this.layoutAlgorithm(parent), with the algorithm's name
layout(name, rects) ==
  /\ layoutAlgorithm = "none"
  /\ treeChildren # <<>>
  /\ layoutAlgorithm' = name
  /\ treeRects' = rects
  /\ UNCHANGED <<treeParent, treeChildren, systemVars, moreVars, svgVars, menuVars,
                 chordVars>>

layoutDice == layout("dice", dice(Parent))

layoutSlice == layout("slice", slice(Parent))

layoutSliceDice == layout("sliceDice", sliceDice(Parent, treeParent.level))

layoutSquarify == layout("squarify", squarify(Parent))

layoutBinaryTree == layout("binaryTree", binaryTree(Parent))

TreeMapNext ==
  \/ layoutDice
  \/ layoutSlice
  \/ layoutSliceDice
  \/ layoutSquarify
  \/ layoutBinaryTree

\* a parent item with its children, not laid out yet
TreeMapInit ==
  SystemInit /\ SVGIdle /\ MenuIdle /\ ChordIdle /\ MoreIdle /\ TreeMapCreated

TreeMapSpec == TreeMapInit /\ [][TreeMapNext]_vars

(***************************************************************************)
(* ChordDiagram: the links of the data, the nodes FlowDiagram.validateData *)
(* makes of them, and validate(), which sizes the nodes' arcs.             *)
(***************************************************************************)
\* the links the data can hold; a link names a node at one end at least
Links ==
  {l \in [fromName : Names \cup {NoName}, toName : Names \cup {NoName},
          value : LinkValues] : l.fromName # NoName \/ l.toName # NoName}

\* a chord diagram with its data, not validated yet
ChordCreated ==
  /\ chordLinks \in UNION {[1..n -> Links] : n \in 1..MaxLinks}
  /\ minNodeSize \in MinNodeSizes
  /\ nonRibbon \in BOOLEAN
  /\ valueAngle = Whole(0)
  /\ chordSlices = <<>>
  /\ chordValidated = FALSE

\* validateData(): this.nodes, in the order the nodes are created
RECURSIVE nodes(_)
nodes(dataItems) ==
  IF dataItems = <<>> THEN <<>>
  ELSE LET before == nodes(SubSeq(dataItems, 1, Len(dataItems) - 1))
           dataItem == dataItems[Len(dataItems)]
           withFrom == IF dataItem.fromName # NoName
                       THEN Add(before, dataItem.fromName) ELSE before
       IN  IF dataItem.toName # NoName
           THEN Add(withFrom, dataItem.toName) ELSE withFrom

\* validateData(): this.dataItem.values.value.sum
RECURSIVE valueSum(_)
valueSum(dataItems) ==
  IF dataItems = <<>> THEN 0
  ELSE Head(dataItems).value + valueSum(Tail(dataItems))

\* getNodeValue(node): node.total = incomingTotal + outgoingTotal
getNodeValue(node) ==
  valueSum(SelectSeq(chordLinks, LAMBDA l : l.toName = node))
    + valueSum(SelectSeq(chordLinks, LAMBDA l : l.fromName = node))

\* value = node.total;
\* if (node.total / total < this.minNodeSize) value = total * this.minNodeSize
floored(node) ==
  LET total == Whole(valueSum(chordLinks))
  IN  IF Less(Over(Whole(getNodeValue(node)), total), minNodeSize)
      THEN Times(total, minNodeSize)
      ELSE Whole(getNodeValue(node))

\* newTotal += value, over the nodes
RECURSIVE newTotal(_)
newTotal(ns) ==
  IF ns = <<>> THEN Whole(0)
  ELSE Plus(floored(Head(ns)), newTotal(Tail(ns)))

\* endAngle - this.startAngle - this.nodePadding * count
Available(nodeCount) == Whole(endAngle - startAngle - nodePadding * nodeCount)

\* the second loop of validate(): adjustedTotal, arc and startAngle of
\* each node's slice
RECURSIVE slices(_, _, _, _)
slices(ns, nodeCount, angle, at) ==
  IF ns = <<>> THEN <<>>
  ELSE LET value == floored(Head(ns))
           arc == IF nonRibbon
                  THEN Minus(Over(Whole(endAngle - startAngle), Whole(nodeCount)),
                             Whole(nodePadding))
                  ELSE Times(angle, value)
       IN  <<[node |-> Head(ns), total |-> getNodeValue(Head(ns)),
              adjustedTotal |-> value, arc |-> arc, startAngle |-> at]>>
             \o slices(Tail(ns), nodeCount, angle,
                       Plus(Plus(at, arc), Whole(nodePadding)))

\* ChordDiagram.validate()
chordValidate ==
  /\ ~chordValidated
  /\ LET ns == nodes(chordLinks)
         nodeCount == Len(ns)
         angle == Over(Available(nodeCount), newTotal(ns))
     IN  /\ valueAngle' = angle
         /\ chordSlices' =
              slices(ns, nodeCount, angle,
                     Plus(Whole(startAngle), Number(nodePadding, 2)))
  /\ chordValidated' = TRUE
  /\ UNCHANGED <<chordLinks, minNodeSize, nonRibbon, systemVars, moreVars, svgVars,
                 menuVars, treeVars>>

\* the setter of minNodeSize: a changed value invalidates the chart; the
\* slices keep their arcs until the next validate()
setMinNodeSize(value) ==
  /\ minNodeSize # value
  /\ minNodeSize' = value
  /\ chordValidated' = FALSE
  /\ UNCHANGED <<chordLinks, nonRibbon, valueAngle, chordSlices, systemVars, moreVars, svgVars, menuVars,
                 treeVars>>

ChordNext ==
  \/ chordValidate
  \/ \E value \in MinNodeSizes : setMinNodeSize(value)

\* a chord diagram with its data, not validated yet
ChordInit ==
  SystemInit /\ SVGIdle /\ MenuIdle /\ TreeIdle /\ MoreIdle /\ ChordCreated

ChordSpec == ChordInit /\ [][ChordNext]_vars

(***************************************************************************)
(* ExportMenu: selectBranch, unselectBranch and delayUnselectBranch with   *)
(* the close timers of the branches.                                       *)
(***************************************************************************)
\* branch.ascendants of the branches of a drawn menu: the top item, its
\* sub-menu items image and data, and png in the sub-menu of image
menuAscendants ==
  [b \in Branches |->
     CASE b = "image" -> <<"dots">>
       [] b = "data" -> <<"dots">>
       [] b = "png" -> <<"dots", "image">>
       [] OTHER -> <<>>]

\* the timers of a branch that have neither fired nor been removed
Pending(ts, b) == {t \in ts : t.branch = b}

\* removeDispose(disposer): the timer the disposer stands for is cleared; a
\* disposer that is undefined (0), or whose timer has fired, clears nothing
removeDispose(ts, ids) == {t \in ts : t.id \notin ids}

\* this.setTimeout(fn, closeDelay): a timer that calls
\* unselectBranch(branch, simple) once closeDelay has passed
setTimeout(id, b, simple) ==
  [id |-> id, branch |-> b, simple |-> simple, set |-> menuClock]

\* selectBranch removes the timer of the branch only
CancelledBranchOnly(branch) == {branch}

\* the branches whose closeTimeout selectBranch removes: the branch and
\* each of its ascendants
Cancelled(branch) == {branch} \cup Range(menuAscendants[branch])

\* the branches selectBranch(branch) unselects: the current selection and
\* its ascendants, but for the branch and its own ascendants
Unselected(branch) ==
  IF currentSelection # NoBranch /\ currentSelection # branch
  THEN {a \in {currentSelection} \cup Range(menuAscendants[currentSelection]) :
          a \notin Range(menuAscendants[branch]) /\ a # branch}
  ELSE {}

selectBranch(branch) ==
  /\ timeouts' =
       removeDispose(timeouts, {closeTimeout[a] : a \in Cancelled(branch)})
  /\ closeTimeout' =
       [b \in Branches |-> IF b \in Cancelled(branch) THEN 0 ELSE closeTimeout[b]]
  /\ active' =
       [b \in Branches |->
          IF b = branch \/ b \in Range(menuAscendants[branch]) THEN TRUE
          ELSE IF b \in Unselected(branch) THEN FALSE
          ELSE active[b]]
  /\ currentSelection' = branch
  /\ menuEvent' = [op |-> "selectBranch", branch |-> branch, timeout |-> 0]
  /\ staleTimeouts' =
       staleTimeouts \cup
         {t.id : t \in {u \in timeouts :
                          u.branch \in {branch} \cup Range(menuAscendants[branch])}}
  /\ UNCHANGED <<menuClock, nextTimeout>>
  /\ UNCHANGED <<systemVars, svgVars, menuVars, treeVars, chordVars,
                 sourceVars, registryVars>>

\* delayUnselectBranch(branch): the branch gets a timer, and each of its
\* ascendants one through delayUnselectBranch(ascendant, true); a timer the
\* closeTimeout of one of them still names is removed first
delayUnselectBranch(branch) ==
  LET targets == <<branch>> \o menuAscendants[branch]
      At(b) == CHOOSE i \in 1..Len(targets) : targets[i] = b IN
  /\ nextTimeout + Len(targets) <= MaxTimeouts
  /\ timeouts' =
       removeDispose(timeouts, {closeTimeout[b] : b \in Range(targets)})
         \cup {setTimeout(nextTimeout + i, targets[i], i > 1) :
                 i \in 1..Len(targets)}
  /\ closeTimeout' =
       [b \in Branches |->
          IF b \in Range(targets) THEN nextTimeout + At(b) ELSE closeTimeout[b]]
  /\ nextTimeout' = nextTimeout + Len(targets)
  /\ menuEvent' = [op |-> "delayUnselectBranch", branch |-> branch, timeout |-> 0]
  /\ UNCHANGED <<active, currentSelection, menuClock, staleTimeouts>>
  /\ UNCHANGED <<systemVars, svgVars, menuVars, treeVars, chordVars,
                 sourceVars, registryVars>>

\* a timer fires closeDelay after it was set: unselectBranch(branch, simple)
\* removes the active class and forgets the branch as the current selection
closeTimer(t) ==
  /\ t \in timeouts
  /\ menuClock >= t.set + closeDelay
  /\ timeouts' = timeouts \ {t}
  /\ active' = [active EXCEPT ![t.branch] = FALSE]
  /\ currentSelection' =
       IF currentSelection = t.branch THEN NoBranch ELSE currentSelection
  /\ menuEvent' = [op |-> "timeout", branch |-> t.branch, timeout |-> t.id]
  /\ UNCHANGED <<closeTimeout, menuClock, nextTimeout, staleTimeouts>>
  /\ UNCHANGED <<systemVars, svgVars, menuVars, treeVars, chordVars,
                 sourceVars, registryVars>>

\* time passes, up to the moment the next timer is due
menuTick ==
  /\ menuClock < MaxMenuClock
  /\ \A t \in timeouts : menuClock < t.set + closeDelay
  /\ menuClock' = menuClock + MenuClockStep
  /\ menuEvent' = [op |-> "tick", branch |-> NoBranch, timeout |-> 0]
  /\ UNCHANGED <<closeTimeout, timeouts, active, currentSelection, nextTimeout,
                 staleTimeouts>>
  /\ UNCHANGED <<systemVars, svgVars, menuVars, treeVars, chordVars,
                 sourceVars, registryVars>>

CloseNext ==
  \/ \E branch \in Branches : selectBranch(branch)
  \/ \E branch \in Branches : delayUnselectBranch(branch)
  \/ \E t \in timeouts : closeTimer(t)
  \/ menuTick

CloseInit ==
  /\ SystemInit /\ SVGIdle /\ MenuIdle /\ TreeIdle /\ ChordIdle /\ CloseIdle
  /\ SourceIdle /\ RegistryIdle

CloseSpec == CloseInit /\ [][CloseNext]_vars

(***************************************************************************)
(* DataSource: reloadFrequency, load(), dispose() and the reload timer.    *)
(***************************************************************************)
\* clearTimeout(id): the timer is cleared; an id that is undefined (0), or
\* whose timer has fired, clears nothing
clearTimeout(timers, id) == timers \ {id}

\* set reloadFrequency(value): a new value is stored; a value that is not
\* falsy gets the listener of "ended" registered unless it is already, a
\* falsy one gets it disposed
setReloadFrequency(value) ==
  /\ ~sourceDisposed
  /\ reloadFrequency # value
  /\ reloadFrequency' = value
  /\ reloadDisposer' = (value # 0)
  /\ sourceEvent' = [op |-> "reloadFrequency", by |-> "user"]
  /\ UNCHANGED <<reloadTimeout, reloadTimers, loading, sourceDisposed,
                 nextReload>>
  /\ UNCHANGED <<systemVars, svgVars, menuVars, treeVars, chordVars,
                 closeVars, registryVars>>

\* load(): if (this._reloadTimeout) clearTimeout(this._reloadTimeout);
\* dataLoader.load(this)
load(by) ==
  /\ loading < MaxLoads
  /\ reloadTimers' = clearTimeout(reloadTimers, reloadTimeout) \ {by}
  /\ loading' = loading + 1
  /\ sourceEvent' =
       [op |-> "load", by |-> IF by = 0 THEN "user" ELSE "timer"]
  /\ UNCHANGED <<reloadFrequency, reloadDisposer, reloadTimeout,
                 sourceDisposed, nextReload>>
  /\ UNCHANGED <<systemVars, svgVars, menuVars, treeVars, chordVars,
                 closeVars, registryVars>>

\* the application calls load()
userLoad ==
  /\ ~sourceDisposed
  /\ load(0)

\* a reload timer fires: this.load()
reloadTimer(id) ==
  /\ id \in reloadTimers
  /\ load(id)

\* the loader reports the end of a load: "ended" is dispatched, and the
\* listener of reloadFrequency, when it is registered, sets a timer and
\* stores it in _reloadTimeout
ended ==
  /\ loading > 0
  /\ loading' = loading - 1
  /\ IF reloadDisposer /\ ~sourceDisposed /\ nextReload < MaxReloads
     THEN /\ nextReload' = nextReload + 1
          /\ reloadTimeout' = nextReload + 1
          /\ reloadTimers' = reloadTimers \cup {nextReload + 1}
     ELSE UNCHANGED <<nextReload, reloadTimeout, reloadTimers>>
  /\ sourceEvent' = [op |-> "ended", by |-> "loader"]
  /\ UNCHANGED <<reloadFrequency, reloadDisposer, sourceDisposed>>
  /\ UNCHANGED <<systemVars, svgVars, menuVars, treeVars, chordVars,
                 closeVars, registryVars>>

\* dispose(): super.dispose(), which disposes the event dispatcher with its
\* listeners; if (this._reloadTimeout) clearTimeout(this._reloadTimeout)
sourceDispose ==
  /\ ~sourceDisposed
  /\ sourceDisposed' = TRUE
  /\ reloadTimers' = clearTimeout(reloadTimers, reloadTimeout)
  /\ sourceEvent' = [op |-> "dispose", by |-> "user"]
  /\ UNCHANGED <<reloadFrequency, reloadDisposer, reloadTimeout, loading,
                 nextReload>>
  /\ UNCHANGED <<systemVars, svgVars, menuVars, treeVars, chordVars,
                 closeVars, registryVars>>

SourceNext ==
  \/ \E value \in Frequencies : setReloadFrequency(value)
  \/ userLoad
  \/ \E id \in reloadTimers : reloadTimer(id)
  \/ ended
  \/ sourceDispose

SourceInit ==
  /\ SystemInit /\ SVGIdle /\ MenuIdle /\ TreeIdle /\ ChordIdle /\ CloseIdle
  /\ SourceIdle /\ RegistryIdle

SourceSpec == SourceInit /\ [][SourceNext]_vars

(***************************************************************************)
(* create(): the base sprite of a chart in registry.baseSprites and        *)
(* registry.baseSpritesByUid, and the disposer that takes it out.          *)
(***************************************************************************)
\* create(htmlElement, classType) through createChild(): without an html
\* container it throws; else the sprite and its container get their ids,
\* registry.baseSprites.push(sprite) and
\* registry.baseSpritesByUid[container.uid] = sprite; a class name that is
\* not registered gives a Container and raiseCriticalError
create(htmlElement, classType) ==
  /\ uidCount + 2 <= 2 * MaxCreated
  /\ IF htmlElement = "missing"
     THEN /\ created' = "html container not found"
          /\ UNCHANGED <<uidCount, baseSprites, baseSpritesByUid,
                         htmlContainerOf, baseDisposed>>
     ELSE LET sprite == uidCount + 1
              container == uidCount + 2
          IN  /\ uidCount' = uidCount + 2
              /\ baseSprites' = Append(baseSprites, sprite)
              /\ baseSpritesByUid' =
                   [baseSpritesByUid EXCEPT ![container] = sprite]
              /\ htmlContainerOf' =
                   [htmlContainerOf EXCEPT ![sprite] = container]
              /\ created' = IF classType = "unknown" THEN "Container"
                            ELSE classType
              /\ UNCHANGED baseDisposed
  /\ UNCHANGED <<systemVars, svgVars, menuVars, treeVars, chordVars,
                 closeVars, sourceVars>>

\* sprite.dispose() runs the disposers createChild() added:
\* $array.remove(registry.baseSprites, sprite) and
\* registry.baseSpritesByUid[sprite.uid] = undefined
baseSpriteDispose(sprite) ==
  /\ htmlContainerOf[sprite] # 0
  /\ sprite \notin baseDisposed
  /\ baseDisposed' = baseDisposed \cup {sprite}
  /\ baseSprites' = Remove(baseSprites, sprite)
  /\ baseSpritesByUid' = [baseSpritesByUid EXCEPT ![sprite] = 0]
  /\ created' = "none"
  /\ UNCHANGED <<uidCount, htmlContainerOf>>
  /\ UNCHANGED <<systemVars, svgVars, menuVars, treeVars, chordVars,
                 closeVars, sourceVars>>

RegistryNext ==
  \/ \E htmlElement \in HtmlElements, classType \in ClassTypes :
       create(htmlElement, classType)
  \/ \E sprite \in Uids : baseSpriteDispose(sprite)

RegistryInit ==
  /\ SystemInit /\ SVGIdle /\ MenuIdle /\ TreeIdle /\ ChordIdle /\ CloseIdle
  /\ SourceIdle /\ RegistryIdle

RegistrySpec == RegistryInit /\ [][RegistryNext]_vars

(***************************************************************************)
(* Properties                                                              *)
(***************************************************************************)
\* the validateData calls of the running update()
Called(c) == \E i \in 1..Len(dataCalls) : dataCalls[i].node = c

Threw(c) ==
  \E i \in 1..Len(dataCalls) :
    dataCalls[i].node = c /\ dataCalls[i].outcome = "throw"

ChunkStop == \E i \in 1..Len(dataCalls) : dataCalls[i].outcome = "partial"

\* neither is the other's dataProvider
Independent(a, b) ==
  a # b /\ dataProvider[a] # b /\ dataProvider[b] # a

\* C1: at most one frame callback is pending in every reachable state, and
\* one is pending exactly when _frameRequested is set, whoever called
\* requestFrame() (an event between frames, a validator inside update(),
\* update() itself).
C1_OneFramePending ==
  /\ rafPending <= 1
  /\ frameRequested <=> rafPending = 1

\* a validator called requestFrame() inside update(), and update() reached
\* its own re-arm with that frame pending
C1_Witness ==
  /\ pc = "returned"
  /\ requestedInUpdate
  /\ Rearm
  /\ rafPending = 1

\* C2 as stated: when update() ends, for independent components A and B that
\* were both in the data-dirty bucket at its start, if A.validateData() threw
\* then B.validateData() was called in this update() and A is not in the
\* bucket.
C2_FailureIsolation ==
  pc = "returned" =>
    \A a, b \in dataAtStart :
      Independent(a, b) /\ Threw(a) =>
        Called(b) /\ ~Contains(invalidDatas, a)

\* C2 amended: A is not in the bucket, and B.validateData() was called
\* unless B is disposed or the data pass was stopped by a chunk
\* (dataValidationProgress < 1) or by the step duration.
C2_FailureIsolationAmended ==
  pc = "returned" =>
    \A a, b \in dataAtStart :
      Independent(a, b) /\ Threw(a) =>
        /\ ~Contains(invalidDatas, a)
        /\ ~disposed[b] /\ ~ChunkStop /\ ~skippedComponents => Called(b)

\* A threw and the independent B was validated later in the same update()
C2_Witness ==
  /\ pc = "returned"
  /\ \E i, j \in 1..Len(dataCalls) :
       /\ i < j
       /\ dataCalls[i].outcome = "throw"
       /\ Independent(dataCalls[i].node, dataCalls[j].node)
       /\ {dataCalls[i].node, dataCalls[j].node} \subseteq dataAtStart

\* C3: validateData() is never called on a component whose validateData()
\* threw and that was not invalidated since.
C3_NoRetryAfterFailure ==
  \A i \in 1..Len(calls) :
    calls[i].op = "validateData" => ~calls[i].afterFailure

\* C4: validateData() is never called on a component while the data of its
\* dataProvider is invalid.
C4_ProviderFirst ==
  \A i \in 1..Len(calls) :
    calls[i].op = "validateData" => ~calls[i].providerInvalid

\* C5: when update() ends after a validateData() call that left
\* dataValidationProgress < 1, that call was the last validateData call of
\* the update(), the component is still data-dirty and queued, and a frame
\* is pending in which it is validated again.
C5_ChunkResumes ==
  pc = "returned" /\ ChunkStop =>
    LET last == dataCalls[Len(dataCalls)] IN
    /\ last.outcome = "partial"
    /\ Contains(invalidDatas, last.node)
    /\ dataInvalid[last.node]
    /\ frameRequested

\* C6: validateDataItems() and validateDataRange() are never called on a
\* component while its own data or the data of its dataProvider is invalid.
C6_DataGating ==
  \A i \in 1..Len(calls) :
    calls[i].op \in {"validateDataItems", "validateDataRange"} =>
      ~calls[i].dataInvalid /\ ~calls[i].providerInvalid

\* the data-items pass called a component while another component, left in
\* the same pass without a call, still had invalid data
C6_Witness ==
  /\ pc = "invalidDataItems"
  /\ \E i \in 1..Len(calls) : calls[i].op = "validateDataItems"
  /\ \E c \in Components : dataInvalid[c] /\ ~disposed[c]

\* C7: validateLayout(), validatePosition() and validate() are never called
\* on a component while its data is invalid.
C7_StageOrder ==
  \A i \in 1..Len(calls) :
    calls[i].op \in {"validateLayout", "validatePosition", "validate"} =>
      ~calls[i].dataInvalid

\* C8: an element the render pass skipped for invalid data is still
\* registered as render-dirty.
C8_SkippedStayQueued ==
  \A i \in 1..Len(skippedSprites.items) :
    LET sprite == skippedSprites.items[i] IN
    /\ Contains(invalidSprites[baseId[sprite]], sprite)
    /\ invalid[sprite]

\* the render pass of the running update() stopped on the step duration
\* inside the while loop of a key
BudgetStop == count = CheckEvery /\ skippedSprites.alias # NoNode

\* C9: when update() ends after the render pass stopped on the step
\* duration, the elements not yet processed are still in the list, still
\* invalid, and a frame is pending.
C9_TimeBoxing ==
  pc = "returned" /\ BudgetStop =>
    LET left == invalidSprites[skippedSprites.alias] IN
    /\ left # <<>>
    /\ \A i \in 1..Len(left) : invalid[left[i]]
    /\ frameRequested
    /\ rafPending = 1

\* an update() that processed part of a list and stopped on the step duration
C9_Witness ==
  /\ pc = "returned"
  /\ BudgetStop
  /\ Len(invalidSprites[skippedSprites.alias])
       < Len(SelectSeq(CreationOrder, LAMBDA n : baseId[n] = skippedSprites.alias))

AnyBucket ==
  \/ invalidDatas # <<>>
  \/ invalidRawDatas # <<>>
  \/ invalidDataItems # <<>>
  \/ invalidDataRange # <<>>
  \/ \E id \in KeySet :
       \/ invalidLayouts[id] # <<>>
       \/ invalidPositions[id] # <<>>
       \/ invalidSprites[id] # <<>>

\* C10: when update() ends, a frame is pending if a bucket still has
\* members, an animation is running or an element was skipped for invalid
\* data; otherwise, unless a validator asked for one, no frame is pending.
C10_Rearm ==
  pc = "returned" =>
    /\ AnyBucket \/ animations > 0 \/ skippedSprites.items # <<>>
         => frameRequested
    /\ ~AnyBucket /\ animations = 0 /\ skippedSprites.items = <<>>
         /\ ~requestedInUpdate
         => ~frameRequested

\* the calls of the last step that threw
Thrown == {i \in 1..Len(calls) : calls[i].outcome = "throw"}

\* C11: no exception of a validation call leaves update(): update() is never
\* left through an exception, and every exception of the last step was taken
\* by a catch that delivered it to raiseCriticalError.
C11_NeverThrows ==
  /\ pc # "thrown"
  /\ Thrown # {} => criticalErrors # {}

\* update() reached the end (animations advanced, exitframe dispatched)
\* after a validateData() call of it threw
C11_Witness ==
  /\ pc = "returned"
  /\ \E c \in Components : Threw(c)

\* the bucket a validation call drains
BucketOf(op, n) ==
  CASE op = "validateLayout" -> invalidLayouts[baseId[n]]
    [] op = "validatePosition" -> invalidPositions[baseId[n]]
    [] OTHER -> invalidSprites[baseId[n]]

\* C12: when a validateLayout, validatePosition or validate call on X threw
\* in the last step, X is no longer in the bucket being drained and
\* raiseCriticalError was invoked on X.
C12_ErrorAttribution ==
  \A i \in Thrown :
    calls[i].op \in {"validateLayout", "validatePosition", "validate"} =>
      /\ ~Contains(BucketOf(calls[i].op, calls[i].node), calls[i].node)
      /\ calls[i].node \in criticalErrors

\* C13: no validation call is made on a node that is disposed at the time of
\* the call.
C13_DisposedUntouched ==
  \A i \in 1..Len(calls) : ~calls[i].disposed

\* the step called op on c
CalledNow(op, c) ==
  \E i \in 1..Len(calls') : calls'[i].op = op /\ calls'[i].node = c

\* C14: a step of the data-items pass (data-range pass) that removes a
\* component that is not disposed from the bucket calls validateDataItems()
\* (validateDataRange()) on it.
C14_DrainInvariant ==
  [][\A c \in Components :
       /\ pc = "invalidDataItems" /\ ~disposed[c]
            /\ Contains(invalidDataItems, c) /\ ~Contains(invalidDataItems', c)
          => CalledNow("validateDataItems", c)
       /\ pc = "invalidDataRange" /\ ~disposed[c]
            /\ Contains(invalidDataRange, c) /\ ~Contains(invalidDataRange', c)
          => CalledNow("validateDataRange", c)]_vars

\* how often a container is in its layout-dirty bucket
Occurrences(array, element) ==
  Cardinality({i \in 1..Len(array) : array[i] = element})

\* C15: a container is at most once in its root's layout-dirty bucket, and
\* one validateLayouts() calls validateLayout() on it at most once.
C15_IdempotentInvalidation ==
  \A c \in Containers :
    /\ Occurrences(invalidLayouts[baseId[c]], c) <= 1
    /\ layoutCalls[c] <= 1

\* the width and the height of a rectangle, and its area
Width(r) == Minus(r.x1, r.x0)

Height(r) == Minus(r.y1, r.y0)

Area(r) == Times(Width(r), Height(r))

\* the share of the parent's side that child i gets:
\* value * side / parent.value
Share(i, side) ==
  Over(Times(Whole(treeChildren[i]), side), Whole(treeParent.value))

\* dice() ran on the parent, directly or through sliceDice()
Diced ==
  \/ layoutAlgorithm = "dice"
  \/ layoutAlgorithm = "sliceDice" /\ treeParent.level % 2 = 0

\* slice() ran on the parent, directly or through sliceDice()
Sliced ==
  \/ layoutAlgorithm = "slice"
  \/ layoutAlgorithm = "sliceDice" /\ treeParent.level % 2 = 1

\* the parent's value is the sum of the values of its children
ValueIsSum == treeParent.value = Sum(treeChildren)

\* the rectangle {0, 0, 4, 4} with children of the values 1 and 3
OneAndThree ==
  /\ treeChildren = <<1, 3>>
  /\ ValueIsSum
  /\ treeParent.x0 = Whole(0) /\ treeParent.y0 = Whole(0)
  /\ treeParent.x1 = Whole(4) /\ treeParent.y1 = Whole(4)

\* C16: dice(parent) gives every child the parent's y0 and y1 and
\* consecutive x-intervals that start at parent.x0 and are
\* value * (x1 - x0) / parent.value wide, so the last child ends at
\* parent.x1 when parent.value is the sum of the children's values; the
\* values 1 and 3 over {0, 0, 4, 4} get the x-intervals [0, 1] and [1, 4];
\* slice(parent) is the same with x and y exchanged.
C16_DiceSlice ==
  LET n == Len(treeChildren)
  IN  /\ Diced =>
            /\ Len(treeRects) = n
            /\ \A i \in 1..n :
                 /\ treeRects[i].y0 = treeParent.y0
                 /\ treeRects[i].y1 = treeParent.y1
                 /\ treeRects[i].x0 =
                      IF i = 1 THEN treeParent.x0 ELSE treeRects[i - 1].x1
                 /\ Width(treeRects[i]) = Share(i, Width(treeParent))
            /\ ValueIsSum => treeRects[n].x1 = treeParent.x1
            /\ OneAndThree =>
                 /\ treeRects[1].x0 = Whole(0) /\ treeRects[1].x1 = Whole(1)
                 /\ treeRects[2].x0 = Whole(1) /\ treeRects[2].x1 = Whole(4)
      /\ Sliced =>
            /\ Len(treeRects) = n
            /\ \A i \in 1..n :
                 /\ treeRects[i].x0 = treeParent.x0
                 /\ treeRects[i].x1 = treeParent.x1
                 /\ treeRects[i].y0 =
                      IF i = 1 THEN treeParent.y0 ELSE treeRects[i - 1].y1
                 /\ Height(treeRects[i]) = Share(i, Height(treeParent))
            /\ ValueIsSum => treeRects[n].y1 = treeParent.y1
            /\ OneAndThree =>
                 /\ treeRects[1].y0 = Whole(0) /\ treeRects[1].y1 = Whole(1)
                 /\ treeRects[2].y0 = Whole(1) /\ treeRects[2].y1 = Whole(4)

\* dice() laid the values 1 and 3 out over {0, 0, 4, 4}
C16_Witness ==
  /\ layoutAlgorithm = "dice"
  /\ OneAndThree
  /\ Len(treeRects) = 2

\* the rectangle of a child has a positive width and height and lies
\* inside the parent's rectangle
Inside(r) ==
  /\ AtMost(treeParent.x0, r.x0) /\ Less(r.x0, r.x1)
  /\ AtMost(r.x1, treeParent.x1)
  /\ AtMost(treeParent.y0, r.y0) /\ Less(r.y0, r.y1)
  /\ AtMost(r.y1, treeParent.y1)

\* two rectangles share no inner point
Apart(r, s) ==
  \/ AtMost(r.x1, s.x0) \/ AtMost(s.x1, r.x0)
  \/ AtMost(r.y1, s.y0) \/ AtMost(s.y1, r.y0)

RECURSIVE AreaSum(_)
AreaSum(rects) ==
  IF rects = <<>> THEN Whole(0)
  ELSE Plus(Area(Head(rects)), AreaSum(Tail(rects)))

\* C17: when the parent's value is the sum of the (positive) values of its
\* children, squarify(parent) gives every child a rectangle inside the
\* parent's; the areas of the children's rectangles sum to the parent's
\* area and no two of the rectangles overlap.
C17_SquarifyTiles ==
  layoutAlgorithm = "squarify" /\ ValueIsSum =>
    /\ Len(treeRects) = Len(treeChildren)
    /\ \A i \in 1..Len(treeRects) : Inside(treeRects[i])
    /\ AreaSum(treeRects) = Area(treeParent)
    /\ \A i, j \in 1..Len(treeRects) :
         i # j => Apart(treeRects[i], treeRects[j])

\* squarify() laid three children out in more than one row: two of the
\* rectangles differ in x0 and two differ in y0
C17_Witness ==
  /\ layoutAlgorithm = "squarify"
  /\ ValueIsSum
  /\ Len(treeRects) = 3
  /\ \E i, j \in 1..3 : treeRects[i].x0 # treeRects[j].x0
  /\ \E i, j \in 1..3 : treeRects[i].y0 # treeRects[j].y0

\* the nodes' totals, in the order of the slices
Totals == [i \in 1..Len(chordSlices) |-> chordSlices[i].total]

\* C18: with the node values 100 and 1, minNodeSize = 0.1 and the total
\* 101, validate() gives the second node an arc of at least 10% of the
\* angle available for the nodes, and the first node an arc below its raw
\* proportional share 100/101 of that angle.
C18_MinNodeSizeFloor ==
  /\ chordValidated
  /\ Totals = <<100, 1>>
  /\ valueSum(chordLinks) = 101
  /\ minNodeSize = Number(1, 10)
  => /\ AtMost(Times(Number(1, 10), Available(2)), chordSlices[2].arc)
     /\ Less(chordSlices[1].arc, Times(Number(100, 101), Available(2)))

\* the place of a position of update() in the order of its phases:
\* enterframe, the four data passes, layouts and positions, the render
\* pass, the animations, the last layouts and positions, the idle callbacks
\* with exitframe, the return
Phase(p) ==
  CASE p = "idle" -> 0
    [] p = "invalidDatas" -> 1
    [] p = "invalidRawDatas" -> 2
    [] p = "invalidDataItems" -> 3
    [] p = "invalidDataRange" -> 4
    [] p \in {"layouts", "positions"} -> 5
    [] p \in {"invalidSprites", "spritesLayouts", "spritesPositions",
              "sprite", "spritesDone"} -> 6
    [] p = "afterSprites" -> 7
    [] p \in {"layoutsAfter", "positionsAfter"} -> 8
    [] p = "exitframe" -> 9
    [] OTHER -> 10

\* the validation calls that belong to a phase
PhaseCalls(phase) ==
  CASE phase = 1 -> {"validateData"}
    [] phase = 2 -> {"validateRawData"}
    [] phase = 3 -> {"validateDataItems"}
    [] phase = 4 -> {"validateDataRange"}
    [] phase \in {5, 8} -> {"validateLayout", "validatePosition"}
    [] phase = 6 -> {"validateLayout", "validatePosition", "validate"}
    [] OTHER -> {}

\* the events a step dispatched, in order
Events(d) == [i \in 1..Len(d) |-> d[i].event]

\* C21: inside one update() the phases follow each other in the fixed
\* order: enterframe is dispatched by the step that enters update(), before
\* any validation call; every validation call is made in the phase it
\* belongs to, and update() never goes back to an earlier phase; the
\* animations are advanced after the render pass and before the last
\* layouts and positions; the idle callbacks and then exitframe come last,
\* after which no call is made.
C21_PhaseOrder ==
  [][/\ pc \notin {"returned", "thrown"} => Phase(pc') >= Phase(pc)
     /\ \A i \in 1..Len(calls') : calls'[i].op \in PhaseCalls(Phase(pc))
     /\ Dispatch("enterframe", NoNode) \in Range(dispatched')
          <=> pc = "idle" /\ pc' = "invalidDatas"
     /\ Dispatch("exitframe", NoNode) \in Range(dispatched')
          <=> pc = "exitframe"
     /\ pc = "exitframe" =>
          /\ Events(dispatched') = <<"idle", "exitframe">>
          /\ pc' = "returned"
     /\ animations' < animations => pc = "afterSprites"]_vars

\* an update() that made calls in the data passes and in the render pass
\* has dispatched exitframe
C21_Witness ==
  /\ pc = "returned"
  /\ Events(dispatched) = <<"idle", "exitframe">>
  /\ dataCalls # <<>>
  /\ \E n \in Nodes : ~invalid[n]

\* the positions of update() inside validateLayouts() / validatePositions()
InLayouts == pc \in {"layouts", "spritesLayouts", "layoutsAfter"}

InPositions == pc \in {"positions", "spritesPositions", "positionsAfter"}

\* the children of a container that are invalid for a stage
LayoutChildren(x) ==
  {c \in Range(children[x]) :
     c \in Containers /\ layoutInvalid[c] /\ ~disposed[c]}

PositionChildren(x) == {c \in Range(children[x]) : positionInvalid[c]}

RenderChildren(x) == {c \in Range(children[x]) : invalid[c]}

\* the step made the container's own call after a call on each of the
\* children kids
ChildrenFirst(x, kids) ==
  \A j \in 1..Len(calls') :
    calls'[j].node = x =>
      \A c \in kids : \E i \in 1..(j - 1) : calls'[i].node = c

\* the step made a call on each of the children kids
AllCalled(kids) ==
  \A c \in kids : \E i \in 1..Len(calls') : calls'[i].node = c

\* a call of the step threw
ThrewNow == \E i \in 1..Len(calls') : calls'[i].outcome = "throw"

RangeCall(c, outcome) ==
  /\ Len(calls') = 1
  /\ calls'[1].op = "validateDataRange"
  /\ calls'[1].node = c
  /\ calls'[1].outcome = outcome

\* the components the step dispatched datarangechanged on
RangeChanged ==
  {c \in Components : Dispatch("datarangechanged", c) \in Range(dispatched')}

\* C23: in the data-range pass datarangechanged is dispatched on a component
\* exactly when its validateDataRange() returned normally and its
\* skipRangeEvent flag was false; after a successful validateDataRange() the
\* flag is false again; a component that is gated by invalid data or whose
\* validation throws gets no notification, and no other step dispatches it.
C23_RangeChanged ==
  [][/\ pc = "invalidDataRange" /\ invalidDataRange # <<>> =>
          LET c == invalidDataRange[1] IN
          /\ RangeChanged \subseteq {c}
          /\ c \in RangeChanged <=>
               RangeCall(c, "done") /\ ~skipRangeEvent[c]
          /\ RangeCall(c, "done") => ~skipRangeEvent'[c]
          /\ DataRangeGated(c) => calls' = <<>> /\ dispatched' = <<>>
          /\ RangeCall(c, "throw") => dispatched' = <<>>
          /\ \A d \in Components \ {c} : skipRangeEvent'[d] = skipRangeEvent[d]
     /\ ~(pc = "invalidDataRange" /\ invalidDataRange # <<>>) =>
          RangeChanged = {}]_vars

\* a validateDataRange() returned and its notification was suppressed, and
\* the flag is false again
C23_Witness ==
  /\ Len(calls) = 1
  /\ calls[1].op = "validateDataRange"
  /\ calls[1].outcome = "done"
  /\ dispatched = <<>>
  /\ ~skipRangeEvent[calls[1].node]

\* the render pass of the running update() left no element behind: none was
\* pushed to skippedSprites for invalid data and no render-dirty list was
\* left with elements by a budget stop
NothingSkipped ==
  /\ skippedSprites.items = <<>>
  /\ \A k \in KeySet : invalidSprites[k] = <<>>

\* C24: the step budget starts at the startup value, and the only change
\* ever made to it is to the relaxed value, made at the end of an update()
\* whose render pass completed with no element skipped, neither for the
\* budget nor for invalid data; once relaxed it is never tightened.
C24_AdaptiveBudget ==
  [][updateStepDuration' # updateStepDuration =>
       /\ updateStepDuration = StartupStepDuration
       /\ updateStepDuration' = RelaxedStepDuration
       /\ pc = "exitframe"
       /\ NothingSkipped]_vars

\* C24, the part the code keeps: the budget starts at the startup value and
\* changes only at the end of an update(), from the startup value to the
\* relaxed one.
C24_OnlyRelaxed ==
  [][updateStepDuration' # updateStepDuration =>
       /\ updateStepDuration = StartupStepDuration
       /\ updateStepDuration' = RelaxedStepDuration
       /\ pc = "exitframe"]_vars

\* the while loop of the running key was left by the break on the step
\* duration: skippedSprites is the list of the key, which still has elements
StoppedInLoop ==
  /\ skippedSprites.alias # NoNode
  /\ invalidSprites[skippedSprites.alias] # <<>>

\* between two looks at the clock the render loop takes no other look: an
\* iteration whose count does not reach CheckEvery neither reads the clock
\* nor leaves the loop
NoCheckBetween ==
  pc = "sprite" /\ count + 1 # CheckEvery =>
    /\ elapsed' = elapsed
    /\ pc' # "spritesDone"
    /\ skippedSprites'.alias = skippedSprites.alias

\* C25 as stated: the render loop compares the elapsed time with the budget
\* once for every 5 processed elements and never in between, so the number
\* of elements of the list processed before a budget stop is a positive
\* multiple of 5, and a list of fewer than 5 elements is drained completely.
C25_CheckGranularity ==
  [][/\ NoCheckBetween
     /\ StoppedInLoop' =>
          /\ processed' > 0
          /\ processed' % CheckEvery = 0
          /\ processed' + Len(invalidSprites'[skippedSprites'.alias])
               >= CheckEvery]_vars

\* C25 amended: the elapsed time is compared with the budget in every 5th
\* iteration of the loop, before that iteration's element is processed, and
\* never in between, so the number of elements processed before a budget
\* stop is one less than a positive multiple of 5, and a list of fewer than
\* 5 elements is drained completely.
C25_CheckGranularityAmended ==
  [][/\ NoCheckBetween
     /\ StoppedInLoop' =>
          /\ processed' > 0
          /\ processed' % CheckEvery = CheckEvery - 1
          /\ processed' + Len(invalidSprites'[skippedSprites'.alias])
               >= CheckEvery]_vars

\* the render loop stopped on the step duration after four elements
C25_Witness ==
  /\ pc = "returned"
  /\ StoppedInLoop
  /\ processed = CheckEvery - 1

\* the branch and its ascendants
WithAscendants(b) == {b} \cup Range(menuAscendants[b])

\* C26: each branch has at most one pending close timer; after
\* selectBranch(b) no close timer is pending for b or for an ascendant of b,
\* so a timer set before b or one of its descendants was selected never
\* unselects b or one of its ascendants; a timer that is not cancelled
\* unselects its branch once closeDelay has passed, and time does not go on
\* past that moment before it has.
C26_DelayedClose ==
  [][/\ \A b \in Branches : Cardinality(Pending(timeouts', b)) <= 1
     /\ menuEvent'.op = "selectBranch" =>
          \A a \in WithAscendants(menuEvent'.branch) :
            Pending(timeouts', a) = {}
     /\ menuEvent'.op = "timeout" =>
          /\ menuEvent'.timeout \notin staleTimeouts
          /\ \E t \in timeouts :
               /\ t.id = menuEvent'.timeout
               /\ t.branch = menuEvent'.branch
               /\ t.id = closeTimeout[t.branch]
               /\ menuClock >= t.set + closeDelay
               /\ timeouts' = timeouts \ {t}
          /\ ~active'[menuEvent'.branch]
          /\ currentSelection' # menuEvent'.branch
     /\ menuClock' # menuClock =>
          \A t \in timeouts : menuClock < t.set + closeDelay]_vars

\* png was left and selected again in time: its timer and those of its
\* ascendants were set and are gone, and all three are still active after
\* closeDelay
C26_Witness ==
  /\ menuEvent.op = "tick"
  /\ currentSelection = "png"
  /\ \A a \in WithAscendants("png") : a \in DOMAIN active /\ active[a]
  /\ Cardinality(staleTimeouts) = 3
  /\ timeouts = {}
  /\ menuClock >= closeDelay

\* the sum of the values of the first i children
Cumulative(i) == Sum(SubSeq(treeChildren, 1, i))

\* how far the cumulative value at index m is from the middle of the
\* children i + 1 .. j, doubled
FromHalf(m, i, j) ==
  LET d == 2 * Cumulative(m) - Cumulative(i) - Cumulative(j)
  IN  IF d < 0 THEN 0 - d ELSE d

\* the rectangles of the children i + 1 .. j fill the box by bisection: one
\* child takes the box; more children are split at an index whose
\* cumulative value is nearest to half of theirs, by a cut across the
\* longer side of the box that divides it in the ratio of the two values,
\* and each part is filled in the same way
RECURSIVE Bisected(_, _, _)
Bisected(i, j, box) ==
  IF j - i <= 1
  THEN treeRects[j] = box
  ELSE \E k \in (i + 1)..(j - 1) :
         /\ \A m \in (i + 1)..(j - 1) : FromHalf(k, i, j) <= FromHalf(m, i, j)
         /\ LET left == Whole(Cumulative(k) - Cumulative(i))
                all == Whole(Cumulative(j) - Cumulative(i))
            IN  IF Less(Height(box), Width(box))
                THEN LET xk == Plus(box.x0, Over(Times(Width(box), left), all))
                     IN  /\ Bisected(i, k, [box EXCEPT !.x1 = xk])
                         /\ Bisected(k, j, [box EXCEPT !.x0 = xk])
                ELSE LET yk == Plus(box.y0, Over(Times(Height(box), left), all))
                     IN  /\ Bisected(i, k, [box EXCEPT !.y1 = yk])
                         /\ Bisected(k, j, [box EXCEPT !.y0 = yk])

\* C27: when the parent's value is the sum of the (positive) values of its
\* children, binaryTree(parent) gives the children rectangles inside the
\* parent's that do not overlap and tile it, the area of each being
\* parent area * child value / parent value; every split is made across
\* the longer axis at the index whose cumulative value is nearest to half
\* of the partition's value.
C27_BinaryTreeTiles ==
  layoutAlgorithm = "binaryTree" /\ ValueIsSum =>
    /\ Len(treeRects) = Len(treeChildren)
    /\ \A i \in 1..Len(treeRects) :
         /\ Inside(treeRects[i])
         /\ Area(treeRects[i]) = Share(i, Area(treeParent))
    /\ AreaSum(treeRects) = Area(treeParent)
    /\ \A i, j \in 1..Len(treeRects) :
         i # j => Apart(treeRects[i], treeRects[j])
    /\ Bisected(0, Len(treeChildren),
                [x0 |-> treeParent.x0, y0 |-> treeParent.y0,
                 x1 |-> treeParent.x1, y1 |-> treeParent.y1])

\* binaryTree() split three children behind the second one, across the
\* longer x axis, and the first two across y
C27_Witness ==
  /\ layoutAlgorithm = "binaryTree"
  /\ ValueIsSum
  /\ treeChildren = <<1, 1, 3>>
  /\ Less(Height(treeParent), Width(treeParent))
  /\ Len(treeRects) = 3
  /\ treeRects[1].x1 = treeRects[3].x0
  /\ treeRects[1].y1 = treeRects[2].y0

\* C28: every call of update(), validateLayouts(id) and validatePositions(id)
\* terminates whatever the buckets hold, also when validation calls throw
\* on every call: a running update() returns, and a running validateLayouts
\* or validatePositions is left.
C28_Termination ==
  /\ pc = "invalidDatas" ~> pc = "returned"
  /\ InLayouts ~> ~InLayouts
  /\ InPositions ~> ~InPositions

\* an update() returned although the validateData() of a dataProvider threw
\* on every call, which left the provider's data invalid and its dependant
\* in the bucket
C28_Witness ==
  /\ pc = "returned"
  /\ "chart" \in throwing
  /\ "chart" \in criticalErrors
  /\ dataInvalid["chart"]
  /\ \E c \in Components :
       dataProvider[c] = "chart" /\ Contains(invalidDatas, c)

\* C29: with a reloadFrequency that is not 0 each "ended" event sets one
\* reload timer, and load() clears the reload timer that is pending; once
\* reloadFrequency is 0, or the DataSource is disposed, no reload timer
\* initiates a load().
C29_AutomaticReload ==
  [][/\ sourceEvent'.op = "ended" /\ reloadFrequency # 0 /\ ~sourceDisposed
          /\ nextReload < MaxReloads
          => Cardinality(reloadTimers' \ reloadTimers) = 1
     /\ sourceEvent'.op = "load" /\ sourceEvent'.by = "timer" =>
          reloadFrequency # 0 /\ ~sourceDisposed]_vars

\* C30: a sprite that create() registered and that was disposed is not in
\* registry.baseSprites, and no entry of registry.baseSpritesByUid refers
\* to it.
C30_RegistryCleanup ==
  \A sprite \in baseDisposed :
    /\ ~Contains(baseSprites, sprite)
    /\ \A u \in Uids : baseSpritesByUid[u] # sprite

\* C19: isDisposed() is true for every SVGContainer dispose() was called
\* on and false for the others, and a disposed container is not in
\* svgContainers.
C19_SVGDisposed ==
  \A c \in 1..Len(svgDisposed) :
    /\ isDisposed(c) <=> svgDisposeCalls[c] > 0
    /\ svgDisposeCalls[c] > 0 => ~Contains(svgContainers, c)

\* the items of the menu that are not flagged unsupported
Supported == {i \in 1..Len(menu) : ~menu[i]}

\* the i-th item after branch in cyclic order (before it, for a negative i)
Cyclic(branch, i) == ((branch - 1 + i + Len(menu) * MaxMenu) % Len(menu)) + 1

\* the nearest item in the direction of the call that is not unsupported
Nearest(branch, direction) ==
  LET d == CHOOSE i \in 1..Len(menu) :
             /\ Cyclic(branch, direction * i) \in Supported
             /\ \A j \in 1..(i - 1) : Cyclic(branch, direction * j) \notin Supported
  IN Cyclic(branch, direction * d)

\* C20: a getNextSibling / getPrevSibling call terminates; it returns the
\* branch when the parent's menu has at most one item, else the nearest
\* following (preceding) item in cyclic order that is not unsupported; the
\* item it returns is never unsupported.
C20_SiblingNavigation ==
  /\ navResult # -1
  /\ navResult > 0 =>
       /\ ~menu[navResult]
       /\ Len(getSiblings) <= 1 => navResult = navBranch
       /\ Len(getSiblings) > 1 =>
            navResult = Nearest(navBranch,
                                IF navCall = "getNextSibling" THEN 1 ELSE -1)

====
